---- MODULE Spec2Model ----
(***************************************************************************)
(* Model of the assembly-rebuild engine of agp-tpf-utils:                  *)
(*   src/src/tola/assembly/build_utils.py    ChrNamer, FoundFragment,      *)
(*                                           OverhangPremise, Resolver     *)
(*   src/src/tola/assembly/build_assembly.py BuildAssembly pipeline        *)
(* Strings are sequences of one-character strings so that the regular      *)
(* expressions and the string formatting of the code are computed.         *)
(* None is the empty sequence <<>> (both are falsy in the code's tests).   *)
(* Specifications:                                                         *)
(*   Spec          the pipeline remap_to_input_assembly, then fusing        *)
(*   SpecAnyOrder  the same with the resolver rounds iterated in any order  *)
(*   SpecNamer     ChrNamer.make_chr_name called scaffold after scaffold    *)
(***************************************************************************)
EXTENDS Integers, Sequences, FiniteSets, TLC

VARIABLES
    pc,               \* position in remap_to_input_assembly / the driver
    prtxt_asm,        \* the edit assembly: sequence of edit scaffolds
    input_asm,        \* the input assembly: sequence of input scaffolds
    bp_tenths,        \* bp_per_texel in tenths of a base
    scf_i,            \* index of the next edit scaffold of find_assembly_overlaps
    heap,             \* every Scaffold / OverlapResult object created, by id
    scaffolds,        \* BuildAssembly.scaffolds: ids into heap, in order
    found_fragments,  \* fragment key -> FoundFragment.scaffolds (ids)
    multi,            \* fragments_found_more_than_once: keys, insertion order
    chr_namer,        \* the ChrNamer object
    cuts,             \* assembly_stats.cuts
    out_asms,         \* result of assemblies_with_scaffolds_fused
    hist              \* observations of the run (history, not program state)

vars == <<pc, prtxt_asm, input_asm, bp_tenths, scf_i, heap, scaffolds,
          found_fragments, multi, chr_namer, cuts, out_asms, hist>>

(***************************************************************************)
(* Bounds of the model                                                     *)
(***************************************************************************)
MaxCoord == 4
MaxLong == 6
MaxBaits == 3
MaxTags == 2
MaxCalls == 2

(***************************************************************************)
(* Strings                                                                 *)
(***************************************************************************)
None == <<>>

Upper == {"A","B","C","D","E","F","G","H","I","J","K","L","M",
          "N","O","P","Q","R","S","T","U","V","W","X","Y","Z"}

Digit == {"0","1","2","3","4","5","6","7","8","9"}

DigitChar(d) == <<"0","1","2","3","4","5","6","7","8","9">>[d + 1]

RECURSIVE Str(_)
Str(n) == IF n < 10 THEN <<DigitChar(n)>>
          ELSE Str(n \div 10) \o <<DigitChar(n % 10)>>

Painted == <<"P","a","i","n","t","e","d">>
Contaminant == <<"C","o","n","t","a","m","i","n","a","n","t">>
Cut == <<"C","u","t">>
Haplotig == <<"H","a","p","l","o","t","i","g">>
Unloc == <<"U","n","l","o","c">>

Min(S) == CHOOSE x \in S : \A y \in S : x <= y
Max(S) == CHOOSE x \in S : \A y \in S : x >= y
Abs(x) == IF x < 0 THEN -x ELSE x

\* re.match(r"[A-Z]\d*$", tag)
ChrNameRe(tag) ==
    /\ Len(tag) >= 1
    /\ tag[1] \in Upper
    /\ \A i \in 2..Len(tag) : tag[i] \in Digit

\* Mutant of HapPrefixRe: the group runs up to the last underscore
HapPrefixReLast(name) ==
    LET us == {i \in 1..Len(name) : name[i] = "_"}
    IN  IF us = {} \/ Min(us) = 1 THEN None
        ELSE SubSeq(name, 1, Max(us) - 1)

\* re.match(r"([^_]+)_", name).group(1), or None when there is no match
HapPrefixRe(name) ==
    LET us == {i \in 1..Len(name) : name[i] = "_"}
    IN  IF us = {} \/ Min(us) = 1 THEN None
        ELSE SubSeq(name, 1, Min(us) - 1)

\* All orders in which a set can be iterated
Orders(S) ==
    {o \in [1..Cardinality(S) -> S] : \A x \in S : \E i \in DOMAIN o : o[i] = x}

(***************************************************************************)
(* ChrNamer                                                                *)
(***************************************************************************)
autosome_prefix == <<"R","L","_">>

ChrNamerInit ==
    [chr_name_n |-> 0, current_chr_name |-> None, current_haplotype |-> None,
     haplotig_n |-> 0, haplotig_scaffolds |-> <<>>,
     unloc_n |-> 0, unloc_scaffolds |-> <<>>, haplotype_set |-> {}]

NotHaplotypeTags == {Contaminant, Cut, Haplotig, Unloc}

\* Mutant of TagStep: a second chromosome name replaces the first
TagStepLastChrName(st, tag) ==
    IF st.raised THEN st
    ELSE IF tag = Painted THEN [st EXCEPT !.is_painted = TRUE]
    ELSE IF ChrNameRe(tag) THEN [st EXCEPT !.chr_name = tag]
    ELSE IF tag \notin NotHaplotypeTags THEN
        IF st.haplotype # None
        THEN [st EXCEPT !.raised = TRUE]
        ELSE [st EXCEPT !.haplotype = tag]
    ELSE st

\* One iteration of the loop over scaffold.fragment_tags()
TagStep(st, tag) ==
    IF st.raised THEN st
    ELSE IF tag = Painted THEN [st EXCEPT !.is_painted = TRUE]
    ELSE IF ChrNameRe(tag) THEN
        IF st.chr_name # None /\ tag # st.chr_name
        THEN [st EXCEPT !.raised = TRUE]
        ELSE [st EXCEPT !.chr_name = tag]
    ELSE IF tag \notin NotHaplotypeTags THEN
        IF st.haplotype # None
        THEN [st EXCEPT !.raised = TRUE]
        ELSE [st EXCEPT !.haplotype = tag]
    ELSE st

RECURSIVE TagLoop(_, _, _)
TagLoop(order, i, st) ==
    IF i > Len(order) THEN st
    ELSE TagLoop(order, i + 1, TagStep(st, order[i]))

\* Mutant of autosome_name: the counter is used before it is incremented
autosome_name_BeforeIncrement(n) == autosome_prefix \o Str(n - 1)

autosome_name(n) == autosome_prefix \o Str(n)

\* Mutant of make_chr_name: the autosome number is taken and the haplotype
\* recorded as soon as their tags are met, before a later tag raises
make_chr_nameEager(nm, order, first_name) ==
    LET st == TagLoop(order, 1,
                [chr_name |-> None, haplotype |-> None,
                 is_painted |-> FALSE, raised |-> FALSE])
        auto == st.chr_name = None /\ st.is_painted
        prefix == HapPrefixRe(first_name)
        chr_name == IF st.chr_name # None THEN st.chr_name
                    ELSE IF st.is_painted THEN autosome_name(nm.chr_name_n + 1)
                    ELSE first_name
        haplotype == IF st.chr_name = None /\ ~st.is_painted
                        /\ prefix # None /\ prefix \in nm.haplotype_set
                     THEN prefix ELSE st.haplotype
    IN  IF st.raised
        THEN [raised |-> TRUE,
              nm |-> [nm EXCEPT
                        !.chr_name_n = IF st.is_painted THEN @ + 1 ELSE @,
                        !.haplotype_set = IF st.haplotype # None
                                          THEN @ \cup {st.haplotype} ELSE @]]
        ELSE [raised |-> FALSE,
              nm |-> [nm EXCEPT
                        !.chr_name_n = IF auto THEN @ + 1 ELSE @,
                        !.current_chr_name = chr_name,
                        !.current_haplotype = haplotype,
                        !.haplotype_set = IF haplotype # None
                                          THEN @ \cup {haplotype} ELSE @,
                        !.unloc_n = 0,
                        !.unloc_scaffolds = <<>>]]

\* make_chr_name: order is the iteration order of the tag set, first_name is
\* scaffold.rows[0].name.  Result: the namer after the call and whether the
\* call raised ValueError.
make_chr_name(nm, order, first_name) ==
    LET st == TagLoop(order, 1,
                [chr_name |-> None, haplotype |-> None,
                 is_painted |-> FALSE, raised |-> FALSE])
        auto == st.chr_name = None /\ st.is_painted
        prefix == HapPrefixRe(first_name)
        chr_name == IF st.chr_name # None THEN st.chr_name
                    ELSE IF st.is_painted THEN autosome_name(nm.chr_name_n + 1)
                    ELSE first_name
        haplotype == IF st.chr_name = None /\ ~st.is_painted
                        /\ prefix # None /\ prefix \in nm.haplotype_set
                     THEN prefix ELSE st.haplotype
    IN  IF st.raised THEN [raised |-> TRUE, nm |-> nm]
        ELSE [raised |-> FALSE,
              nm |-> [nm EXCEPT
                        !.chr_name_n = IF auto THEN @ + 1 ELSE @,
                        !.current_chr_name = chr_name,
                        !.current_haplotype = haplotype,
                        !.haplotype_set = IF haplotype # None
                                          THEN @ \cup {haplotype} ELSE @,
                        !.unloc_n = 0,
                        !.unloc_scaffolds = <<>>]]

haplotig_name(n) == <<"H","_">> \o Str(n)

\* f"{self.current_chr_name}_unloc_{self.unloc_n}": None is written None
unloc_name(chr, n) ==
    (IF chr = None THEN <<"N","o","n","e">> ELSE chr)
        \o <<"_","u","n","l","o","c","_">> \o Str(n)

(***************************************************************************)
(* Fragments, gaps, scaffolds                                              *)
(***************************************************************************)
Frag(name, s, e) == [gap |-> FALSE, name |-> name, start |-> s, end |-> e]

Gap(n, type) == [gap |-> TRUE, name |-> type, start |-> 1, end |-> n]

RowLength(r) == r.end - r.start + 1

RECURSIVE RowsLength(_)
RowsLength(rows) ==
    IF rows = <<>> THEN 0 ELSE RowLength(Head(rows)) + RowsLength(Tail(rows))

\* Scaffold.length
ScaffoldLength(s) == RowsLength(s.rows)

\* Fragment.overlaps
Overlaps(a, b) == a.name = b.name /\ a.start <= b.end /\ b.start <= a.end

\* Fragment.abuts
Abuts(a, b) ==
    a.name = b.name /\ (a.end + 1 = b.start \/ b.end + 1 = a.start)

\* Scaffold.fragments()
Fragments(rows) == SelectSeq(rows, LAMBDA r : ~r.gap)

default_gap == Gap(2, <<"d","f","l","t">>)

NoBait == [name |-> None, start |-> 0, end |-> 0]

\* A plain Scaffold object
NewScaffold(name) ==
    [ovr |-> FALSE, name |-> name, tag |-> None, haplotype |-> None,
     rows |-> <<>>, bait |-> NoBait, start_overhang |-> 0, end_overhang |-> 0]

(***************************************************************************)
(* IndexedAssembly.find_overlaps and OverlapResult                         *)
(***************************************************************************)
RECURSIVE SortByStart(_)
SortByStart(S) ==
    IF S = {} THEN <<>>
    ELSE LET m == CHOOSE f \in S : \A g \in S : f.start <= g.start
         IN  <<m>> \o SortByStart(S \ {m})

InputFragments(asm) ==
    UNION {{asm[i].rows[j] : j \in {k \in DOMAIN asm[i].rows : ~asm[i].rows[k].gap}} :
                i \in DOMAIN asm}

\* find_overlaps: the OverlapResult for a bait, or rows = <<>> for none
find_overlaps(asm, bait) ==
    LET hits == {f \in InputFragments(asm) : Overlaps(f, bait)}
        rows == SortByStart(hits)
    IN  [ovr |-> TRUE, name |-> None, tag |-> None, haplotype |-> None,
         rows |-> rows,
         bait |-> [name |-> bait.name, start |-> bait.start, end |-> bait.end],
         start_overhang |-> IF rows = <<>> THEN 0
                            ELSE bait.start - rows[1].start,
         end_overhang |-> IF rows = <<>> THEN 0
                          ELSE rows[Len(rows)].end - bait.end]

overhang_if_start_removed(o) ==
    IF Len(o.rows) > 1 THEN o.bait.start - o.rows[2].start
    ELSE o.bait.start - (o.rows[1].end + 1)

overhang_if_end_removed(o) ==
    IF Len(o.rows) > 1 THEN o.rows[Len(o.rows) - 1].end - o.bait.end
    ELSE (o.rows[1].start - 1) - o.bait.end

discard_start(o) ==
    [o EXCEPT !.rows = Tail(@), !.start_overhang = overhang_if_start_removed(o)]

discard_end(o) ==
    [o EXCEPT !.rows = SubSeq(@, 1, Len(@) - 1),
              !.end_overhang = overhang_if_end_removed(o)]

BaitOverlap(o, r) ==
    Min({r.end, o.bait.end}) - Max({r.start, o.bait.start}) + 1

start_row_bait_overlap(o) == BaitOverlap(o, o.rows[1])

end_row_bait_overlap(o) == BaitOverlap(o, o.rows[Len(o.rows)])

InsideBait(o, x) == o.bait.start < x /\ x < o.bait.end

trim_large_overhangs(o, err_length) ==
    LET a == IF o.start_overhang > err_length /\ InsideBait(o, o.rows[1].end)
             THEN discard_start(o) ELSE o
    IN  IF a.rows # <<>> /\ a.end_overhang > err_length
           /\ InsideBait(a, a.rows[Len(a.rows)].start)
        THEN discard_end(a) ELSE a

fragment_start_if_trimmed(o, f) == Max({f.start, o.bait.start})

\* The sub-fragment of f that OverlapResult o keeps
TrimmedFragment(o, f, keep_start, keep_end) ==
    Frag(f.name,
         IF keep_start THEN f.start ELSE Max({f.start, o.bait.start}),
         IF keep_end THEN f.end ELSE Min({f.end, o.bait.end}))

\* trim_fragment: the row f of o is replaced by its sub-fragment
trim_fragment(o, f, keep_start, keep_end) ==
    [o EXCEPT !.rows = [i \in DOMAIN @ |->
        IF @[i] = f THEN TrimmedFragment(o, f, keep_start, keep_end) ELSE @[i]]]

(***************************************************************************)
(* ChrNamer.label_scaffold and rename_by_size                              *)
(***************************************************************************)
\* Mutant of label_scaffold: Haplotig is tested before Contaminant
label_scaffoldHaplotigFirst(nm, o, id, ftags) ==
    IF Haplotig \in ftags THEN
        [nm |-> [nm EXCEPT !.haplotig_n = @ + 1,
                           !.haplotig_scaffolds = Append(@, id)],
         o |-> [o EXCEPT !.tag = Haplotig,
                         !.name = haplotig_name(nm.haplotig_n + 1),
                         !.haplotype = nm.current_haplotype]]
    ELSE IF Contaminant \in ftags THEN
        [nm |-> nm,
         o |-> [o EXCEPT !.tag = Contaminant, !.name = nm.current_chr_name,
                         !.haplotype = nm.current_haplotype]]
    ELSE IF Unloc \in ftags THEN
        [nm |-> [nm EXCEPT !.unloc_n = @ + 1,
                           !.unloc_scaffolds = Append(@, id)],
         o |-> [o EXCEPT !.name = unloc_name(nm.current_chr_name, nm.unloc_n + 1),
                         !.haplotype = nm.current_haplotype]]
    ELSE
        [nm |-> nm,
         o |-> [o EXCEPT !.name = nm.current_chr_name,
                         !.haplotype = nm.current_haplotype]]

\* label_scaffold on a new object that will get heap id `id`
label_scaffold(nm, o, id, ftags) ==
    IF Contaminant \in ftags THEN
        [nm |-> nm,
         o |-> [o EXCEPT !.tag = Contaminant, !.name = nm.current_chr_name,
                         !.haplotype = nm.current_haplotype]]
    ELSE IF Haplotig \in ftags THEN
        [nm |-> [nm EXCEPT !.haplotig_n = @ + 1,
                           !.haplotig_scaffolds = Append(@, id)],
         o |-> [o EXCEPT !.tag = Haplotig,
                         !.name = haplotig_name(nm.haplotig_n + 1),
                         !.haplotype = nm.current_haplotype]]
    ELSE IF Unloc \in ftags THEN
        [nm |-> [nm EXCEPT !.unloc_n = @ + 1,
                           !.unloc_scaffolds = Append(@, id)],
         o |-> [o EXCEPT !.name = unloc_name(nm.current_chr_name, nm.unloc_n + 1),
                         !.haplotype = nm.current_haplotype]]
    ELSE
        [nm |-> nm,
         o |-> [o EXCEPT !.name = nm.current_chr_name,
                         !.haplotype = nm.current_haplotype]]

\* Mutant of SizeRank: the sort is not reversed
SizeRankAscending(hp, ids, i) ==
    LET len(k) == ScaffoldLength(hp[ids[k]])
    IN  1 + Cardinality({k \in DOMAIN ids : len(k) < len(i)})
          + Cardinality({k \in DOMAIN ids : k < i /\ len(k) = len(i)})

\* Position of ids[i] in sorted(ids, key=length, reverse=True) (stable)
SizeRank(hp, ids, i) ==
    LET len(k) == ScaffoldLength(hp[ids[k]])
    IN  1 + Cardinality({k \in DOMAIN ids : len(k) > len(i)})
          + Cardinality({k \in DOMAIN ids : k < i /\ len(k) = len(i)})

\* Mutant of rename_by_size: the names stay where they were assigned
rename_by_size_Keep(hp, ids) == hp

\* rename_by_size: the heap after the names of ids are re-dealt by size
rename_by_size(hp, ids) ==
    [h \in DOMAIN hp |->
        IF \E i \in DOMAIN ids : ids[i] = h
        THEN LET i == CHOOSE k \in DOMAIN ids : ids[k] = h
             IN  [hp[h] EXCEPT !.name = hp[ids[SizeRank(hp, ids, i)]].name]
        ELSE hp[h]]

(***************************************************************************)
(* BuildAssembly: find_assembly_overlaps                                   *)
(***************************************************************************)
\* error_length
error_length(tenths) == 1 + (tenths \div 10)

\* Scaffold.fragment_tags(): union of the tags of the fragments
fragment_tags(frags) == UNION {frags[i].tags : i \in DOMAIN frags}

\* store_fragments_found for the fragments ffs[i..] of scaffold id.
\* b has fields found (key -> list of ids) and multi (list of keys).
RECURSIVE store_fragments_found(_, _, _, _)
store_fragments_found(b, id, ffs, i) ==
    IF i > Len(ffs) THEN b
    ELSE LET ff == ffs[i]
             had == ff \in DOMAIN b.found
             lst == IF had THEN b.found[ff] ELSE <<>>
             mlt == IF had /\ ~(\E k \in DOMAIN b.multi : b.multi[k] = ff)
                    THEN Append(b.multi, ff) ELSE b.multi
             fnd == [k \in (DOMAIN b.found) \cup {ff} |->
                        IF k = ff THEN Append(lst, id) ELSE b.found[k]]
         IN  store_fragments_found([b EXCEPT !.found = fnd, !.multi = mlt],
                                   id, ffs, i + 1)

\* What a pass of the loop over prtxt_scffld.fragments() can change
LoopSummary(b) ==
    [scaffolds |-> b.scaffolds, heap_size |-> Len(b.heap), found |-> b.found,
     multi |-> b.multi, haplotig_n |-> b.nm.haplotig_n, unloc_n |-> b.nm.unloc_n,
     haplotig_scaffolds |-> b.nm.haplotig_scaffolds,
     unloc_scaffolds |-> b.nm.unloc_scaffolds]

\* Mutant of FragmentStep: the scaffold is labelled before the test for a hit
FragmentStepLabelFirst(b, asm, frag, err_length) ==
    LET found == find_overlaps(asm, frag)
        id == Len(b.heap) + 1
        lab == label_scaffold(b.nm, found, id, frag.tags)
        trm == trim_large_overhangs(lab.o, err_length)
        b1 == [b EXCEPT !.nm = lab.nm, !.heap = Append(@, trm)]
        st == store_fragments_found([found |-> b1.found, multi |-> b1.multi],
                                    id, Fragments(trm.rows), 1)
    IN  IF found.rows = <<>> THEN [b EXCEPT !.nm = lab.nm]
        ELSE IF trm.rows = <<>> THEN b1
        ELSE [b1 EXCEPT !.scaffolds = Append(@, id),
                        !.found = st.found, !.multi = st.multi]

\* The body of the loop over prtxt_scffld.fragments() for one edit fragment.
\* b has fields nm, heap, scaffolds, found, multi, log.
FragmentStep(b, asm, frag, err_length) ==
    LET found == find_overlaps(asm, frag)
        id == Len(b.heap) + 1
        lab == label_scaffold(b.nm, found, id, frag.tags)
        trm == trim_large_overhangs(lab.o, err_length)
        b1 == [b EXCEPT !.nm = lab.nm, !.heap = Append(@, trm)]
        st == store_fragments_found([found |-> b1.found, multi |-> b1.multi],
                                    id, Fragments(trm.rows), 1)
    IN  IF found.rows = <<>> THEN b
        ELSE IF trm.rows = <<>> THEN b1
        ELSE [b1 EXCEPT !.scaffolds = Append(@, id),
                        !.found = st.found, !.multi = st.multi]

\* The loop over prtxt_scffld.fragments() from fragment i onwards.  The log
\* keeps, for every edit fragment, whether find_overlaps found something and,
\* for a fragment without overlaps, what the pass left behind.
RECURSIVE FragmentLoop(_, _, _, _, _)
FragmentLoop(b, asm, frags, i, err_length) ==
    IF i > Len(frags) THEN b
    ELSE LET hit == find_overlaps(asm, frags[i]).rows # <<>>
             b2 == FragmentStep(b, asm, frags[i], err_length)
             entry == [bait |-> frags[i], hit |-> hit,
                       before |-> IF hit THEN <<>> ELSE <<LoopSummary(b)>>,
                       after |-> IF hit THEN <<>> ELSE <<LoopSummary(b2)>>]
         IN  FragmentLoop([b2 EXCEPT !.log = Append(b.log, entry)],
                          asm, frags, i + 1, err_length)

\* Sum of scaffold_count over fragments_found_more_than_once
SumScaffoldCount(fnd, mlt) ==
    LET RECURSIVE S(_)
        S(i) == IF i > Len(mlt) THEN 0 ELSE Len(fnd[mlt[i]]) + S(i + 1)
    IN  S(1)

\* One iteration of the loop over prtxt_asm.scaffolds: make_chr_name, the
\* fragments, rename_unlocs_by_size.
FindAssemblyOverlaps ==
    /\ pc = "find"
    /\ scf_i <= Len(prtxt_asm)
    /\ LET frags == prtxt_asm[scf_i]
       IN  \E order \in Orders(fragment_tags(frags)) :
            LET r == make_chr_name(chr_namer, order, frags[1].name)
                b == FragmentLoop([nm |-> r.nm, heap |-> heap,
                                   scaffolds |-> scaffolds,
                                   found |-> found_fragments, multi |-> multi,
                                   log |-> hist.fraglog],
                                  input_asm, frags, 1, error_length(bp_tenths))
                last == scf_i = Len(prtxt_asm)
            IN  IF r.raised
                THEN /\ pc' = "failed"
                     /\ UNCHANGED <<scf_i, heap, scaffolds, found_fragments,
                                    multi, chr_namer, hist>>
                ELSE /\ pc' = IF last THEN "discard" ELSE "find"
                     /\ scf_i' = scf_i + 1
                     /\ heap' = rename_by_size(b.heap, b.nm.unloc_scaffolds)
                     /\ scaffolds' = b.scaffolds
                     /\ found_fragments' = b.found
                     /\ multi' = b.multi
                     /\ chr_namer' = b.nm
                     /\ hist' = [hist EXCEPT
                            !.fraglog = b.log,
                            !.sum0 = IF last THEN SumScaffoldCount(b.found, b.multi)
                                     ELSE @,
                            !.multi0 = IF last THEN b.multi ELSE @,
                            !.found0 = IF last THEN b.found ELSE @,
                            !.heap0 = IF last THEN heap' ELSE @]
    /\ UNCHANGED <<prtxt_asm, input_asm, bp_tenths, cuts, out_asms>>

(***************************************************************************)
(* OverhangPremise and OverhangResolver                                    *)
(***************************************************************************)
Premise(id, f, kind) == [scaffold |-> id, fragment |-> f, kind |-> kind]

bait_overlap(hp, p) ==
    IF p.kind = "start" THEN start_row_bait_overlap(hp[p.scaffold])
    ELSE end_row_bait_overlap(hp[p.scaffold])

overhang_if_applied(hp, p) ==
    IF p.kind = "start" THEN overhang_if_start_removed(hp[p.scaffold])
    ELSE overhang_if_end_removed(hp[p.scaffold])

overhang_error_delta_if_applied(hp, p) ==
    IF p.kind = "start"
    THEN Abs(overhang_if_start_removed(hp[p.scaffold]))
            - Abs(hp[p.scaffold].start_overhang)
    ELSE Abs(overhang_if_end_removed(hp[p.scaffold]))
            - Abs(hp[p.scaffold].end_overhang)

\* Mutant of improves: the guard against a large negative overhang is left out
improvesNoFloor(hp, p, err_length) ==
    IF Len(hp[p.scaffold].rows) = 1 THEN FALSE
    ELSE overhang_error_delta_if_applied(hp, p) < 0

improves(hp, p, err_length) ==
    IF Len(hp[p.scaffold].rows) = 1 THEN FALSE
    ELSE /\ overhang_error_delta_if_applied(hp, p) < 0
         /\ overhang_if_applied(hp, p) > -3 * err_length

makes_worse(hp, p, err_length) == ~improves(hp, p, err_length)

\* premise.apply()
apply(hp, p) ==
    [hp EXCEPT ![p.scaffold] =
        IF p.kind = "start" THEN discard_start(@) ELSE discard_end(@)]

\* add_overhang_premise: lists is premises_by_fragment_key as a sequence of
\* [key, prems] in insertion order
add_overhang_premise(hp, lists, f, id) ==
    LET rows == hp[id].rows
        kind == IF rows[1] = f THEN "start"
                ELSE IF rows[Len(rows)] = f THEN "end" ELSE "none"
        at == {k \in DOMAIN lists : lists[k].key = f}
    IN  IF kind = "none" THEN lists
        ELSE IF at = {}
        THEN Append(lists, [key |-> f, prems |-> <<Premise(id, f, kind)>>])
        ELSE [lists EXCEPT ![Min(at)].prems = Append(@, Premise(id, f, kind))]

\* The two loops of discard_overhanging_fragments that fill the resolver:
\* keys is the order of multi.values(), scfs[k] the order of fnd.scaffolds
RECURSIVE AddPremises(_, _, _, _, _, _)
AddPremises(hp, lists, keys, scfs, i, j) ==
    IF i > Len(keys) THEN lists
    ELSE IF j > Len(scfs[keys[i]])
    THEN AddPremises(hp, lists, keys, scfs, i + 1, 1)
    ELSE AddPremises(hp, add_overhang_premise(hp, lists, keys[i], scfs[keys[i]][j]),
                     keys, scfs, i, j + 1)

\* sorted(prem_list, key=delta): index of the element at position 1, and 2
BestIndex(hp, prems, excl) ==
    CHOOSE i \in (DOMAIN prems) \ excl :
        \A k \in (DOMAIN prems) \ excl :
            \/ overhang_error_delta_if_applied(hp, prems[i])
                 < overhang_error_delta_if_applied(hp, prems[k])
            \/ /\ overhang_error_delta_if_applied(hp, prems[i])
                    = overhang_error_delta_if_applied(hp, prems[k])
               /\ i <= k

\* Mutant of FixFor: the two-premise rule applies the first premise without
\* comparing the two bait overlaps
FixForFirstOfTwo(hp, prems, err_length) ==
    LET frst == prems[1]
        scnd == prems[2]
        b == BestIndex(hp, prems, {})
        bst == prems[b]
        nxt == prems[BestIndex(hp, prems, {b})]
    IN  IF Len(prems) = 2 /\ bait_overlap(hp, frst) < err_length
                          /\ bait_overlap(hp, scnd) < err_length
        THEN <<frst>>
        ELSE IF Len(prems) > 1 /\ improves(hp, bst, err_length)
                               /\ makes_worse(hp, nxt, err_length)
        THEN <<bst>>
        ELSE <<>>

\* Mutant of FixFor: the two-premise rule applies the premise with the larger
\* bait overlap
FixForLargerOfTwo(hp, prems, err_length) ==
    LET frst == prems[1]
        scnd == prems[2]
        b == BestIndex(hp, prems, {})
        bst == prems[b]
        nxt == prems[BestIndex(hp, prems, {b})]
    IN  IF Len(prems) = 2 /\ bait_overlap(hp, frst) < err_length
                          /\ bait_overlap(hp, scnd) < err_length
        THEN IF bait_overlap(hp, frst) > bait_overlap(hp, scnd)
             THEN <<frst>> ELSE <<scnd>>
        ELSE IF Len(prems) > 1 /\ improves(hp, bst, err_length)
                               /\ makes_worse(hp, nxt, err_length)
        THEN <<bst>>
        ELSE <<>>

\* Mutant of FixFor: the best premise is applied when it improves, whatever
\* the next one would do
FixForBestOnly(hp, prems, err_length) ==
    LET frst == prems[1]
        scnd == prems[2]
        b == BestIndex(hp, prems, {})
        bst == prems[b]
    IN  IF Len(prems) = 2 /\ bait_overlap(hp, frst) < err_length
                          /\ bait_overlap(hp, scnd) < err_length
        THEN IF bait_overlap(hp, frst) < bait_overlap(hp, scnd)
             THEN <<frst>> ELSE <<scnd>>
        ELSE IF Len(prems) > 1 /\ improves(hp, bst, err_length)
        THEN <<bst>>
        ELSE <<>>

\* The premise of one prem_list that make_fixes applies, or <<>> for none
FixFor(hp, prems, err_length) ==
    LET frst == prems[1]
        scnd == prems[2]
        b == BestIndex(hp, prems, {})
        bst == prems[b]
        nxt == prems[BestIndex(hp, prems, {b})]
    IN  IF Len(prems) = 2 /\ bait_overlap(hp, frst) < err_length
                          /\ bait_overlap(hp, scnd) < err_length
        THEN IF bait_overlap(hp, frst) < bait_overlap(hp, scnd)
             THEN <<frst>> ELSE <<scnd>>
        ELSE IF Len(prems) > 1 /\ improves(hp, bst, err_length)
                               /\ makes_worse(hp, nxt, err_length)
        THEN <<bst>>
        ELSE <<>>

\* The overhang of an OverlapResult at the end a premise is about
OverhangAtEnd(o, kind) ==
    IF kind = "start" THEN o.start_overhang ELSE o.end_overhang

\* What make_fixes reads of a premise when it comes to its prem_list
PremiseFacts(hp, p, err_length) ==
    [scaffold |-> p.scaffold, fragment |-> p.fragment, kind |-> p.kind,
     rows |-> Len(hp[p.scaffold].rows),
     overlap |-> bait_overlap(hp, p),
     overhang |-> OverhangAtEnd(hp[p.scaffold], p.kind),
     if_applied |-> overhang_if_applied(hp, p),
     delta |-> overhang_error_delta_if_applied(hp, p)]

\* One prem_list of a round as make_fixes met it: the premises, the premise
\* applied (or none) and the OverlapResult it left
Decision(hp, prems, fix, err_length) ==
    [prems |-> [k \in DOMAIN prems |-> PremiseFacts(hp, prems[k], err_length)],
     applied |-> fix,
     left |-> IF fix = <<>> THEN <<>>
              ELSE LET o == apply(hp, fix[1])[fix[1].scaffold]
                   IN  <<[rows |-> Len(o.rows),
                          overhang |-> OverhangAtEnd(o, fix[1].kind)]>>]

\* The body of the loop of make_fixes for one prem_list: r has fields heap,
\* fixes (fixes_made) and log
make_fixes_step(r, prems, err_length) ==
    LET fix == FixFor(r.heap, prems, err_length)
    IN  [heap |-> IF fix = <<>> THEN r.heap ELSE apply(r.heap, fix[1]),
         fixes |-> r.fixes \o fix,
         log |-> Append(r.log, Decision(r.heap, prems, fix, err_length))]

\* make_fixes: the loop over premises_by_fragment_key.values()
RECURSIVE make_fixes(_, _, _, _)
make_fixes(r, lists, i, err_length) ==
    IF i > Len(lists) THEN r
    ELSE make_fixes(make_fixes_step(r, lists[i].prems, err_length),
                    lists, i + 1, err_length)

RemoveFirst(seq, x) ==
    LET at == {i \in DOMAIN seq : seq[i] = x}
    IN  IF at = {} THEN seq
        ELSE SubSeq(seq, 1, Min(at) - 1) \o SubSeq(seq, Min(at) + 1, Len(seq))

\* Mutant of RemoveFixed: the fixed OverlapResult is not removed
RemoveFixedNoRemove(b, fixes, i) == b

\* Mutant of RemoveFixed: an entry leaves multi only when no scaffold is left
RECURSIVE RemoveFixedKeepSingle(_, _, _)
RemoveFixedKeepSingle(b, fixes, i) ==
    IF i > Len(fixes) THEN b
    ELSE LET fk == fixes[i].fragment
             in == \E k \in DOMAIN b.multi : b.multi[k] = fk
             lst == RemoveFirst(b.found[fk], fixes[i].scaffold)
         IN  RemoveFixedKeepSingle(
                IF ~in THEN b
                ELSE [found |-> [b.found EXCEPT ![fk] = lst],
                      multi |-> IF Len(lst) < 1 THEN RemoveFirst(b.multi, fk)
                                ELSE b.multi],
                fixes, i + 1)

\* The loop over fixes_made: b has fields found and multi
RECURSIVE RemoveFixed(_, _, _)
RemoveFixed(b, fixes, i) ==
    IF i > Len(fixes) THEN b
    ELSE LET fk == fixes[i].fragment
             in == \E k \in DOMAIN b.multi : b.multi[k] = fk
             lst == RemoveFirst(b.found[fk], fixes[i].scaffold)
         IN  RemoveFixed(
                IF ~in THEN b
                ELSE [found |-> [b.found EXCEPT ![fk] = lst],
                      multi |-> IF Len(lst) <= 1 THEN RemoveFirst(b.multi, fk)
                                ELSE b.multi],
                fixes, i + 1)

\* One iteration of the while loop, iterating multi in order keys and each
\* fnd.scaffolds in order scfs
Round(hp, fnd, mlt, keys, scfs, err_length) ==
    LET lists == AddPremises(hp, <<>>, keys, scfs, 1, 1)
        r == make_fixes([heap |-> hp, fixes |-> <<>>, log |-> <<>>],
                        lists, 1, err_length)
        b == RemoveFixed([found |-> fnd, multi |-> mlt], r.fixes, 1)
    IN  [heap |-> r.heap, fixes |-> r.fixes, found |-> b.found,
         multi |-> b.multi, lists |-> lists, decisions |-> r.log]

\* Two premises of one round share an OverlapResult
SharedScaffold(lists) ==
    \E i, j \in DOMAIN lists :
        \E a \in DOMAIN lists[i].prems, b \in DOMAIN lists[j].prems :
            /\ <<i, a>> # <<j, b>>
            /\ lists[i].prems[a].scaffold = lists[j].prems[b].scaffold

\* A prem_list in which make_fixes meets two equal keys: equal bait_overlap
\* under the two-premise rule, equal overhang_error_delta under the sort
TiedPremises(hp, lists, err_length) ==
    \E i \in DOMAIN lists :
        LET prems == lists[i].prems
        IN  IF Len(prems) = 2 /\ bait_overlap(hp, prems[1]) < err_length
                              /\ bait_overlap(hp, prems[2]) < err_length
            THEN bait_overlap(hp, prems[1]) = bait_overlap(hp, prems[2])
            ELSE \E a, b \in DOMAIN prems :
                    /\ a # b
                    /\ overhang_error_delta_if_applied(hp, prems[a])
                         = overhang_error_delta_if_applied(hp, prems[b])

\* The prem_lists of a round that hold exactly two premises, both with
\* bait_overlap below err_length when the round begins, with the scaffolds
\* the round's fixes removed the fragment from
TwoPremiseCases(hp, lists, fixes, err_length) ==
    {[fragment |-> lists[i].key,
      first |-> [scaffold |-> lists[i].prems[1].scaffold,
                 overlap |-> bait_overlap(hp, lists[i].prems[1])],
      second |-> [scaffold |-> lists[i].prems[2].scaffold,
                  overlap |-> bait_overlap(hp, lists[i].prems[2])],
      removed |-> {fixes[k].scaffold :
                      k \in {x \in DOMAIN fixes : fixes[x].fragment = lists[i].key}}] :
        i \in {x \in DOMAIN lists :
                 /\ Len(lists[x].prems) = 2
                 /\ bait_overlap(hp, lists[x].prems[1]) < err_length
                 /\ bait_overlap(hp, lists[x].prems[2]) < err_length}}

\* What one iteration of the while loop does with the result r of the round
RoundApply(r, keys, scfs) ==
    LET two == hist.twoprem \cup TwoPremiseCases(heap, r.lists, r.fixes,
                                                 error_length(bp_tenths))
        shared == hist.shared \/ SharedScaffold(r.lists)
        tied == hist.tied \/ TiedPremises(heap, r.lists, error_length(bp_tenths))
        reordered == \/ hist.reordered
                     \/ keys # multi
                     \/ \E i \in DOMAIN multi :
                            scfs[multi[i]] # found_fragments[multi[i]]
    IN  IF multi = <<>> \/ r.fixes = <<>>
        THEN /\ pc' = "cut"
             /\ hist' = IF multi = <<>> THEN hist
                        ELSE [hist EXCEPT !.rounds = @ + 1,
                                          !.decisions = r.decisions,
                                          !.twoprem = two,
                                          !.shared = shared,
                                          !.tied = tied,
                                          !.reordered = reordered]
             /\ UNCHANGED <<heap, found_fragments, multi>>
        ELSE /\ pc' = "discard"
             /\ heap' = r.heap
             /\ found_fragments' = r.found
             /\ multi' = r.multi
             /\ hist' = [hist EXCEPT !.rounds = @ + 1,
                                     !.decisions = r.decisions,
                                     !.fixes = r.fixes,
                                     !.lists = r.lists,
                                     !.twoprem = two,
                                     !.shared = shared,
                                     !.tied = tied,
                                     !.reordered = reordered,
                                     !.before = [heap |-> heap,
                                                 found |-> found_fragments,
                                                 multi |-> multi]]

\* One iteration of the while loop from the current state
RoundStep(keys, scfs) ==
    RoundApply(Round(heap, found_fragments, multi, keys, scfs,
                     error_length(bp_tenths)), keys, scfs)

\* discard_overhanging_fragments, one iteration of `while multi`
DiscardOverhangingFragments ==
    /\ pc = "discard"
    /\ RoundStep(multi, found_fragments)
    /\ UNCHANGED <<prtxt_asm, input_asm, bp_tenths, scf_i, scaffolds,
                   chr_namer, cuts, out_asms>>

\* All orders of a list
PermSeqs(seq) ==
    {[i \in DOMAIN seq |-> seq[o[i]]] : o \in Orders(DOMAIN seq)}

\* All ways to order fnd.scaffolds for each key of K
RECURSIVE ScfOrders(_)
ScfOrders(K) ==
    IF K = {} THEN {<<>>}
    ELSE LET k == CHOOSE x \in K : TRUE
         IN  {(k :> p) @@ f : p \in PermSeqs(found_fragments[k]),
                              f \in ScfOrders(K \ {k})}

\* discard_overhanging_fragments with multi.values() and each fnd.scaffolds
\* iterated in an arbitrary order in every round
DiscardAnyOrder ==
    /\ pc = "discard"
    /\ \E keys \in PermSeqs(multi) :
        \E scfs \in ScfOrders({multi[i] : i \in DOMAIN multi}) :
            RoundStep(keys, scfs)
    /\ UNCHANGED <<prtxt_asm, input_asm, bp_tenths, scf_i, scaffolds,
                   chr_namer, cuts, out_asms>>

(***************************************************************************)
(* BuildAssembly: cut_remaining_overhangs                                  *)
(***************************************************************************)
\* sorted(fnd.scaffolds, key=fragment_start_if_trimmed) (stable)
OrderedScaffolds(hp, f, ids) ==
    LET key(k) == fragment_start_if_trimmed(hp[ids[k]], f)
        rank(i) == 1 + Cardinality({k \in DOMAIN ids : key(k) < key(i)})
                     + Cardinality({k \in DOMAIN ids : k < i /\ key(k) = key(i)})
    IN  [r \in DOMAIN ids |-> ids[CHOOSE i \in DOMAIN ids : rank(i) = r]]

\* The sub-fragments made by the loop of cut_fragments
SubFragments(hp, f, ordered) ==
    [i \in DOMAIN ordered |->
        TrimmedFragment(hp[ordered[i]], f, i = 1, i = Len(ordered))]

\* The heap after the loop of cut_fragments
RECURSIVE TrimAll(_, _, _, _)
TrimAll(hp, f, ordered, i) ==
    IF i > Len(ordered) THEN hp
    ELSE TrimAll([hp EXCEPT ![ordered[i]] =
                        trim_fragment(@, f, i = 1, i = Len(ordered))],
                 f, ordered, i + 1)

\* Mutant of qc_sub_fragments: one abutment too many is expected
qc_sub_fragments_OffByOne(f, subs) ==
    LET pairs == {p \in (DOMAIN subs) \X (DOMAIN subs) : p[1] < p[2]}
        abut_count == Cardinality({p \in pairs : Abuts(subs[p[1]], subs[p[2]])})
        overlap_count ==
            Cardinality({p \in pairs : Overlaps(subs[p[1]], subs[p[2]])})
    IN  \/ RowLength(f) # RowsLength(subs)
        \/ overlap_count # 0
        \/ abut_count # Len(subs)

\* qc_sub_fragments: TRUE when it raises ValueError
qc_sub_fragments(f, subs) ==
    LET pairs == {p \in (DOMAIN subs) \X (DOMAIN subs) : p[1] < p[2]}
        abut_count == Cardinality({p \in pairs : Abuts(subs[p[1]], subs[p[2]])})
        overlap_count ==
            Cardinality({p \in pairs : Overlaps(subs[p[1]], subs[p[2]])})
        sub_frags_length == RowsLength(subs)
    IN  \/ RowLength(f) # sub_frags_length
        \/ overlap_count # 0
        \/ abut_count # Len(subs) - 1

\* Mutant of cut_fragments: the cuts are counted before qc_sub_fragments
cut_fragmentsCountFirst(b, f, ids) ==
    LET ordered == OrderedScaffolds(b.heap, f, ids)
        subs == SubFragments(b.heap, f, ordered)
        hp == TrimAll(b.heap, f, ordered, 1)
        bad == qc_sub_fragments(f, subs)
    IN  [heap |-> hp,
         cuts |-> b.cuts + Len(subs) - 1,
         raised |-> bad,
         log |-> Append(b.log, [fragment |-> f, subs |-> subs, raised |-> bad])]

\* cut_fragments: b has fields heap, cuts, raised, log
cut_fragments(b, f, ids) ==
    LET ordered == OrderedScaffolds(b.heap, f, ids)
        subs == SubFragments(b.heap, f, ordered)
        hp == TrimAll(b.heap, f, ordered, 1)
        bad == qc_sub_fragments(f, subs)
    IN  [heap |-> hp,
         cuts |-> IF bad THEN b.cuts ELSE b.cuts + Len(subs) - 1,
         raised |-> bad,
         log |-> Append(b.log, [fragment |-> f, subs |-> subs, raised |-> bad])]

RECURSIVE CutLoop(_, _, _, _)
CutLoop(b, fnd, mlt, i) ==
    IF i > Len(mlt) \/ b.raised THEN b
    ELSE CutLoop(cut_fragments(b, mlt[i], fnd[mlt[i]]), fnd, mlt, i + 1)

CutRemainingOverhangs ==
    /\ pc = "cut"
    /\ LET b == CutLoop([heap |-> heap, cuts |-> cuts, raised |-> FALSE,
                         log |-> <<>>], found_fragments, multi, 1)
       IN  /\ heap' = b.heap
           /\ cuts' = b.cuts
           /\ hist' = [hist EXCEPT !.cutlog = b.log]
           /\ IF b.raised
              THEN pc' = "failed" /\ UNCHANGED multi
              ELSE pc' = "rename" /\ multi' = <<>>
    /\ UNCHANGED <<prtxt_asm, input_asm, bp_tenths, scf_i, scaffolds,
                   found_fragments, chr_namer, out_asms>>

(***************************************************************************)
(* rename_haplotigs_by_size                                                *)
(***************************************************************************)
RenameHaplotigsBySize ==
    /\ pc = "rename"
    /\ heap' = rename_by_size(heap, chr_namer.haplotig_scaffolds)
    /\ pc' = "missing"
    /\ UNCHANGED <<prtxt_asm, input_asm, bp_tenths, scf_i, scaffolds,
                   found_fragments, multi, chr_namer, cuts, out_asms, hist>>

(***************************************************************************)
(* add_missing_scaffolds_from_input                                        *)
(***************************************************************************)
\* Mutant of MissingRows: the lookup in found_fragments is left out
RECURSIVE MissingRowsNoLookup(_, _, _, _)
MissingRowsNoLookup(b, rows, fnd, i) ==
    IF i > Len(rows) THEN b
    ELSE IF rows[i].gap
    THEN MissingRowsNoLookup(b, rows, fnd, i + 1)
    ELSE LET sep == IF b.last # 0 /\ b.last # i - 1
                    THEN IF rows[i - 1].gap THEN <<rows[i - 1]>>
                         ELSE <<default_gap>>
                    ELSE <<>>
         IN  MissingRowsNoLookup([rows |-> b.rows \o sep \o <<rows[i]>>, last |-> i],
                                 rows, fnd, i + 1)

\* Mutant of MissingRows: default_gap is added whatever the previous row is
RECURSIVE MissingRowsDefaultGap(_, _, _, _)
MissingRowsDefaultGap(b, rows, fnd, i) ==
    IF i > Len(rows) THEN b
    ELSE IF rows[i].gap \/ rows[i] \in DOMAIN fnd
    THEN MissingRowsDefaultGap(b, rows, fnd, i + 1)
    ELSE LET sep == IF b.last # 0 /\ b.last # i - 1
                    THEN <<default_gap>> ELSE <<>>
         IN  MissingRowsDefaultGap([rows |-> b.rows \o sep \o <<rows[i]>>,
                                    last |-> i], rows, fnd, i + 1)

\* Mutant of MissingRows: the previous row is added only when it is the one
\* row between the last added fragment and this one
RECURSIVE MissingRowsAdjacentOnly(_, _, _, _)
MissingRowsAdjacentOnly(b, rows, fnd, i) ==
    IF i > Len(rows) THEN b
    ELSE IF rows[i].gap \/ rows[i] \in DOMAIN fnd
    THEN MissingRowsAdjacentOnly(b, rows, fnd, i + 1)
    ELSE LET sep == IF b.last # 0 /\ b.last # i - 1
                    THEN IF rows[i - 1].gap /\ b.last = i - 2
                         THEN <<rows[i - 1]>>
                         ELSE <<default_gap>>
                    ELSE <<>>
         IN  MissingRowsAdjacentOnly([rows |-> b.rows \o sep \o <<rows[i]>>,
                                      last |-> i], rows, fnd, i + 1)

\* The loop over scffld.idx_fragments() from row i: b has fields rows (of
\* new_scffld, <<>> while it is None) and last (last_added_i, 0 for None)
RECURSIVE MissingRows(_, _, _, _)
MissingRows(b, rows, fnd, i) ==
    IF i > Len(rows) THEN b
    ELSE IF rows[i].gap \/ rows[i] \in DOMAIN fnd
    THEN MissingRows(b, rows, fnd, i + 1)
    ELSE LET sep == IF b.last # 0 /\ b.last # i - 1
                    THEN IF rows[i - 1].gap THEN <<rows[i - 1]>>
                         ELSE <<default_gap>>
                    ELSE <<>>
         IN  MissingRows([rows |-> b.rows \o sep \o <<rows[i]>>, last |-> i],
                         rows, fnd, i + 1)

\* Mutant of MissingLoop: the new scaffold is named current_chr_name
RECURSIVE MissingLoopChrName(_, _, _, _)
MissingLoopChrName(b, asm, fnd, i) ==
    IF i > Len(asm) THEN b
    ELSE LET m == MissingRows([rows |-> <<>>, last |-> 0], asm[i].rows, fnd, 1)
             r == make_chr_name(b.nm, <<>>, m.rows[1].name)
             new == [NewScaffold(r.nm.current_chr_name) EXCEPT
                        !.rows = m.rows,
                        !.haplotype = r.nm.current_haplotype]
         IN  MissingLoopChrName(
                IF m.rows = <<>> THEN b
                ELSE [nm |-> r.nm, heap |-> Append(b.heap, new),
                      scaffolds |-> Append(b.scaffolds, Len(b.heap) + 1),
                      log |-> Append(b.log,
                                [id |-> Len(b.heap) + 1, input |-> i,
                                 chr_name |-> r.nm.current_chr_name,
                                 haplotype |-> r.nm.current_haplotype])],
                asm, fnd, i + 1)

\* The loop over input_asm.scaffolds: b has fields nm, heap, scaffolds and
\* log, which records for every scaffold added its heap id, the index of its
\* input scaffold, and current_chr_name and current_haplotype as
\* make_chr_name left them
RECURSIVE MissingLoop(_, _, _, _)
MissingLoop(b, asm, fnd, i) ==
    IF i > Len(asm) THEN b
    ELSE LET m == MissingRows([rows |-> <<>>, last |-> 0], asm[i].rows, fnd, 1)
             r == make_chr_name(b.nm, <<>>, m.rows[1].name)
             new == [NewScaffold(asm[i].name) EXCEPT
                        !.rows = m.rows,
                        !.haplotype = r.nm.current_haplotype]
         IN  MissingLoop(
                IF m.rows = <<>> THEN b
                ELSE [nm |-> r.nm, heap |-> Append(b.heap, new),
                      scaffolds |-> Append(b.scaffolds, Len(b.heap) + 1),
                      log |-> Append(b.log,
                                [id |-> Len(b.heap) + 1, input |-> i,
                                 chr_name |-> r.nm.current_chr_name,
                                 haplotype |-> r.nm.current_haplotype])],
                asm, fnd, i + 1)

AddMissingScaffoldsFromInput ==
    /\ pc = "missing"
    /\ LET b == MissingLoop([nm |-> chr_namer, heap |-> heap,
                             scaffolds |-> scaffolds, log |-> <<>>],
                            input_asm, found_fragments, 1)
       IN  /\ chr_namer' = b.nm
           /\ heap' = b.heap
           /\ scaffolds' = b.scaffolds
           /\ hist' = [hist EXCEPT !.carried = b.log]
    /\ pc' = "fuse"
    /\ UNCHANGED <<prtxt_asm, input_asm, bp_tenths, scf_i, found_fragments,
                   multi, cuts, out_asms>>

(***************************************************************************)
(* assemblies_with_scaffolds_fused                                         *)
(***************************************************************************)
AsmName == <<"a","s","m">>

\* Scaffold.append_scaffold(other, gap)
append_scaffold(s, rows, gap) ==
    [s EXCEPT !.rows = IF @ # <<>> /\ gap # <<>> THEN @ \o gap \o rows
                       ELSE @ \o rows]

\* Mutant of FuseLoop: an OverlapResult without rows is fused like the others
\* (b has the fields out, new and cur of FuseLoop)
RECURSIVE FuseLoopKeepEmpty(_, _, _, _)
FuseLoopKeepEmpty(b, hp, ids, i) ==
    IF i > Len(ids) THEN b.out \o b.new
    ELSE LET scffld == hp[ids[i]]
             hap_chr == <<scffld.haplotype, scffld.name>>
             start == hap_chr # b.cur
             b1 == IF start
                   THEN [out |-> b.out \o b.new, cur |-> hap_chr,
                         new |-> <<[name |-> scffld.name, tag |-> scffld.tag,
                                    haplotype |-> scffld.haplotype,
                                    rows |-> <<>>]>>]
                   ELSE b
             b2 == [b1 EXCEPT !.new[1] =
                        append_scaffold(@, scffld.rows,
                            IF scffld.ovr THEN <<default_gap>> ELSE <<>>)]
         IN  FuseLoopKeepEmpty(b2, hp, ids, i + 1)

\* Mutant of FuseLoop: an entry without rows ends the run
RECURSIVE FuseLoopEmptyEndsRun(_, _, _, _)
FuseLoopEmptyEndsRun(b, hp, ids, i) ==
    IF i > Len(ids) THEN b.out \o b.new
    ELSE LET scffld == hp[ids[i]]
             hap_chr == <<scffld.haplotype, scffld.name>>
             start == hap_chr # b.cur
             b1 == IF start
                   THEN [out |-> b.out \o b.new, cur |-> hap_chr,
                         new |-> <<[name |-> scffld.name, tag |-> scffld.tag,
                                    haplotype |-> scffld.haplotype,
                                    rows |-> <<>>]>>]
                   ELSE b
             b2 == [b1 EXCEPT !.new[1] =
                        append_scaffold(@, scffld.rows,
                            IF scffld.ovr THEN <<default_gap>> ELSE <<>>)]
         IN  IF scffld.rows = <<>>
             THEN FuseLoopEmptyEndsRun([out |-> b.out \o b.new, new |-> <<>>,
                                        cur |-> <<None, None>>], hp, ids, i + 1)
             ELSE FuseLoopEmptyEndsRun(b2, hp, ids, i + 1)

\* scaffolds_fused_by_name from entry i: b has fields out (scaffolds yielded),
\* new (<<new_scffld>> or <<>> for None) and cur (<<current_hap_chr>>)
RECURSIVE FuseLoop(_, _, _, _)
FuseLoop(b, hp, ids, i) ==
    IF i > Len(ids) THEN b.out \o b.new
    ELSE LET scffld == hp[ids[i]]
             hap_chr == <<scffld.haplotype, scffld.name>>
             start == hap_chr # b.cur
             b1 == IF start
                   THEN [out |-> b.out \o b.new, cur |-> hap_chr,
                         new |-> <<[name |-> scffld.name, tag |-> scffld.tag,
                                    haplotype |-> scffld.haplotype,
                                    rows |-> <<>>]>>]
                   ELSE b
             b2 == [b1 EXCEPT !.new[1] =
                        append_scaffold(@, scffld.rows,
                            IF scffld.ovr THEN <<default_gap>> ELSE <<>>)]
         IN  IF scffld.rows = <<>> THEN FuseLoop(b, hp, ids, i + 1)
             ELSE FuseLoop(b2, hp, ids, i + 1)

scaffolds_fused_by_name(hp, ids) ==
    FuseLoop([out |-> <<>>, new |-> <<>>, cur |-> <<None, None>>], hp, ids, 1)

\* int(chars), or -1 when chars is not a non-empty run of digits
RECURSIVE ParseNat(_)
ParseNat(cs) ==
    IF cs = <<>> \/ \E i \in DOMAIN cs : cs[i] \notin Digit THEN -1
    ELSE LET d == CHOOSE k \in 0..9 : DigitChar(k) = cs[Len(cs)]
         IN  IF Len(cs) = 1 THEN d
             ELSE 10 * ParseNat(SubSeq(cs, 1, Len(cs) - 1)) + d

\* smart_sort_scaffolds key: chromosomes by number, unlocs after their
\* chromosome in suffix order, the rest by length descending
SmartSortKey(s, prefix) ==
    LET n == s.name
        rest == SubSeq(n, Len(prefix) + 1, Len(n))
        us == {i \in DOMAIN rest : rest[i] = "_"}
        chr == IF us = {} THEN rest ELSE SubSeq(rest, 1, Min(us) - 1)
        tail == IF us = {} THEN <<>> ELSE SubSeq(rest, Min(us), Len(rest))
        ul == <<"_","u","n","l","o","c","_">>
        unl == IF tail = <<>> THEN 0
               ELSE IF Len(tail) > 7 /\ SubSeq(tail, 1, 7) = ul
               THEN ParseNat(SubSeq(tail, 8, Len(tail))) ELSE -1
    IN  IF Len(n) > Len(prefix) /\ SubSeq(n, 1, Len(prefix)) = prefix
           /\ ParseNat(chr) >= 0 /\ unl >= 0
        THEN <<0, ParseNat(chr), unl>>
        ELSE <<1, 0, 0 - RowsLength(s.rows)>>

KeyLess(a, b) ==
    \/ a[1] < b[1]
    \/ a[1] = b[1] /\ a[2] < b[2]
    \/ a[1] = b[1] /\ a[2] = b[2] /\ a[3] < b[3]

smart_sort_scaffolds(ss, prefix) ==
    LET key(k) == SmartSortKey(ss[k], prefix)
        rank(i) == 1 + Cardinality({k \in DOMAIN ss : KeyLess(key(k), key(i))})
                     + Cardinality({k \in DOMAIN ss : k < i /\ key(k) = key(i)})
    IN  [r \in DOMAIN ss |-> ss[CHOOSE i \in DOMAIN ss : rank(i) = r]]

\* Mutant of PartitionLoopHaplotypeFirst: the haplotype is tested before the tag
RECURSIVE PartitionLoopHaplotypeFirst(_, _, _)
PartitionLoopHaplotypeFirst(asms, fused, i) ==
    IF i > Len(fused) THEN asms
    ELSE LET scffld == fused[i]
             asm_key == IF scffld.haplotype # None THEN scffld.haplotype
                        ELSE scffld.tag
             asm_name == IF scffld.haplotype # None
                         THEN AsmName \o <<"_">> \o scffld.haplotype
                         ELSE IF scffld.tag # None
                         THEN AsmName \o <<"_">> \o scffld.tag \o <<"s">>
                         ELSE AsmName
             at == {k \in DOMAIN asms : asms[k].key = asm_key}
         IN  PartitionLoopHaplotypeFirst(
                IF at = {}
                THEN Append(asms, [key |-> asm_key, name |-> asm_name,
                                   scaffolds |-> <<scffld>>])
                ELSE [asms EXCEPT ![Min(at)].scaffolds = Append(@, scffld)],
                fused, i + 1)

\* The loop of assemblies_with_scaffolds_fused: asms is the dict as a
\* sequence of [key, name, scaffolds] in insertion order
RECURSIVE PartitionLoop(_, _, _)
PartitionLoop(asms, fused, i) ==
    IF i > Len(fused) THEN asms
    ELSE LET scffld == fused[i]
             asm_key == IF scffld.tag # None THEN scffld.tag
                        ELSE scffld.haplotype
             asm_name == IF scffld.tag # None
                         THEN AsmName \o <<"_">> \o scffld.tag \o <<"s">>
                         ELSE IF scffld.haplotype # None
                         THEN AsmName \o <<"_">> \o scffld.haplotype
                         ELSE AsmName
             at == {k \in DOMAIN asms : asms[k].key = asm_key}
         IN  PartitionLoop(
                IF at = {}
                THEN Append(asms, [key |-> asm_key, name |-> asm_name,
                                   scaffolds |-> <<scffld>>])
                ELSE [asms EXCEPT ![Min(at)].scaffolds = Append(@, scffld)],
                fused, i + 1)

\* The loop over scaffolds_fused_by_name() and the sort of every assembly;
\* hist.fused keeps the scaffolds in the order they were yielded
PartitionAndSort(fused) ==
    /\ LET asms == PartitionLoop(<<>>, fused, 1)
       IN  out_asms' = [k \in DOMAIN asms |->
                [asms[k] EXCEPT !.scaffolds =
                    smart_sort_scaffolds(@, autosome_prefix)]]
    /\ hist' = [hist EXCEPT !.fused = fused]

AssembliesWithScaffoldsFused ==
    /\ pc = "fuse"
    /\ PartitionAndSort(scaffolds_fused_by_name(heap, scaffolds))
    /\ pc' = "done"
    /\ UNCHANGED <<prtxt_asm, input_asm, bp_tenths, scf_i, heap, scaffolds,
                   found_fragments, multi, chr_namer, cuts>>

(***************************************************************************)
(* Inputs                                                                  *)
(***************************************************************************)
SeqName == <<"s","e","q">>

InputScaffoldName == <<"S","c","f">>

\* A layout of disjoint intervals on 1..n: 0 not covered, 1 the first base
\* of an interval, 2 a further base of the interval to its left
Layouts(n) ==
    {c \in [1..n -> 0..2] :
        /\ c[1] # 2
        /\ \A i \in 2..n : c[i] = 2 => c[i - 1] # 0}

\* A layout covers every base
FullLayout(c) == \A x \in DOMAIN c : c[x] # 0

LayoutEnd(c, s) ==
    Min({e \in s..Len(c) : e = Len(c) \/ c[e + 1] # 2})

LayoutIntervals(c) ==
    SortByStart({Frag(SeqName, s, LayoutEnd(c, s)) : s \in {i \in DOMAIN c : c[i] = 1}})

\* Rows of an input scaffold: the fragments with a gap row between them
RECURSIVE InputRows(_)
InputRows(frs) ==
    IF Len(frs) <= 1 THEN frs
    ELSE <<Head(frs), Gap(1, <<"i","n">>)>> \o InputRows(Tail(frs))

BpTenthsSet == {15, 25}

HistInit ==
    [rounds |-> 0, sum0 |-> 0, multi0 |-> <<>>, found0 |-> <<>>, heap0 |-> <<>>,
     fixes |-> <<>>, lists |-> <<>>, before |-> <<>>, cutlog |-> <<>>,
     shared |-> FALSE, tied |-> FALSE, reordered |-> FALSE, twoprem |-> {},
     fraglog |-> <<>>, decisions |-> <<>>,
     carried |-> <<>>, fused |-> <<>>]

InitRun ==
    /\ pc = "find"
    /\ scf_i = 1
    /\ heap = <<>>
    /\ scaffolds = <<>>
    /\ found_fragments = <<>>
    /\ multi = <<>>
    /\ chr_namer = ChrNamerInit
    /\ cuts = 0
    /\ out_asms = <<>>
    /\ hist = HistInit

ChrX == <<"X">>

\* Edit scaffolds from baits: all in one scaffold, or one scaffold each.
\* Every fragment carries stags; the fragments at even positions (all of
\* them when every is TRUE) also carry marker.
EditScaffolds(baits, split, stags, marker, every) ==
    LET frs == [i \in DOMAIN baits |->
                  [name |-> baits[i].name, start |-> baits[i].start,
                   end |-> baits[i].end,
                   tags |-> stags \cup (IF every \/ i % 2 = 0 THEN marker ELSE {})]]
    IN  IF split THEN [i \in DOMAIN frs |-> <<frs[i]>>] ELSE <<frs>>

Markers == {{Unloc}, {Haplotig}, {Contaminant}}

\* The inputs: any layout of input fragments with untagged or painted edit
\* scaffolds, and gap-free input layouts with every tagging.  Fragments with
\* a marker tag share one edit scaffold; painted or X-tagged fragments are
\* also taken one scaffold each.
Init ==
    /\ InitRun
    /\ bp_tenths \in BpTenthsSet
    /\ \E ic \in Layouts(MaxCoord), bc \in Layouts(MaxCoord),
          split \in BOOLEAN, every \in BOOLEAN,
          stags \in {{}, {Painted}, {ChrX}}, marker \in Markers \cup {{}} :
        /\ LayoutIntervals(ic) # <<>>
        /\ LayoutIntervals(bc) # <<>>
        /\ marker = {} => every
        /\ (marker # {} \/ stags = {}) => ~split
        /\ (marker # {} \/ stags = {ChrX}) => FullLayout(ic)
        /\ input_asm = <<[name |-> InputScaffoldName,
                          rows |-> InputRows(LayoutIntervals(ic))]>>
        /\ prtxt_asm = EditScaffolds(LayoutIntervals(bc), split, stags, marker, every)

Next ==
    \/ FindAssemblyOverlaps
    \/ DiscardOverhangingFragments
    \/ CutRemainingOverhangs
    \/ RenameHaplotigsBySize
    \/ AddMissingScaffoldsFromInput
    \/ AssembliesWithScaffoldsFused

Spec == Init /\ [][Next]_vars

(***************************************************************************)
(* ChrNamer driven on its own: make_chr_name called for a sequence of       *)
(* scaffolds, as find_assembly_overlaps does, until a call raises           *)
(***************************************************************************)
TagA == <<"A">>
TagX1 == <<"X","1">>
Hap1 == <<"H","a","p","1">>
Hap2 == <<"H","a","p","2">>

TagPool == {TagA, TagX1, Hap1, Hap2, Painted, Unloc}

\* The tag sets a scaffold's fragments can carry
TagSets == {T \in SUBSET TagPool : Cardinality(T) <= MaxTags}

ContigSuffix == <<"_","c","o","n","t","i","g","_","7">>

FirstNames == {TagA \o ContigSuffix, Hap1 \o ContigSuffix, Hap2 \o ContigSuffix,
               SeqName}

InitNamer ==
    /\ pc = "namer"
    /\ scf_i = 1
    /\ prtxt_asm = <<>>
    /\ input_asm = <<>>
    /\ bp_tenths = Min(BpTenthsSet)
    /\ heap = <<>>
    /\ scaffolds = <<>>
    /\ found_fragments = <<>>
    /\ multi = <<>>
    /\ chr_namer = ChrNamerInit
    /\ cuts = 0
    /\ out_asms = <<>>
    /\ hist = [calls |-> 0, seen |-> {}, assigned |-> {}, last |-> <<>>]

\* One call of make_chr_name on a scaffold with the tag set tags, iterated in
\* some order, whose first row is named first_name.  hist keeps the tags of
\* the scaffolds named so far, the haplotypes they were given and the call.
MakeChrName ==
    /\ pc = "namer"
    /\ hist.calls < MaxCalls
    /\ \E tags \in TagSets, first_name \in FirstNames :
        \E order \in Orders(tags) :
            LET r == make_chr_name(chr_namer, order, first_name)
            IN  /\ chr_namer' = r.nm
                /\ pc' = IF r.raised THEN "failed" ELSE "namer"
                /\ hist' = [calls |-> hist.calls + 1,
                            seen |-> hist.seen \cup tags,
                            assigned |-> IF r.raised \/ r.nm.current_haplotype = None
                                         THEN hist.assigned
                                         ELSE hist.assigned \cup {r.nm.current_haplotype},
                            last |-> <<[tags |-> tags, first_name |-> first_name,
                                        raised |-> r.raised,
                                        seen |-> hist.seen,
                                        assigned |-> hist.assigned]>>]
    /\ UNCHANGED <<prtxt_asm, input_asm, bp_tenths, scf_i, heap, scaffolds,
                   found_fragments, multi, cuts, out_asms>>

NextNamer == MakeChrName

SpecNamer == InitNamer /\ [][NextNamer]_vars

(***************************************************************************)
(* ChrNamer driven by make_chr_name and label_scaffold calls in any order   *)
(***************************************************************************)
MaxLabelCalls == 4

\* The tags of the scaffold given to make_chr_name, in iteration order
LabelTagOrders ==
    {<<>>, <<Painted>>, <<Hap1>>, <<TagA>>, <<Hap1, Hap2>>,
     <<Painted, Hap1, Hap2>>, <<TagA, TagX1>>}

\* The tags of the edit fragment given to label_scaffold
LabelFragmentTags == SUBSET {Contaminant, Haplotig, Unloc}

LabelBait == [name |-> SeqName, start |-> 1, end |-> 1]

LabelInput == <<[name |-> InputScaffoldName, rows |-> <<Frag(SeqName, 1, 1)>>]>>

InitLabel ==
    /\ pc = "label"
    /\ scf_i = 1
    /\ prtxt_asm = <<>>
    /\ input_asm = LabelInput
    /\ bp_tenths = Min(BpTenthsSet)
    /\ heap = <<>>
    /\ scaffolds = <<>>
    /\ found_fragments = <<>>
    /\ multi = <<>>
    /\ chr_namer = ChrNamerInit
    /\ cuts = 0
    /\ out_asms = <<>>
    /\ hist = [calls |-> 0, last |-> <<>>]

\* One call of make_chr_name; hist.last keeps the call and the ChrNamer it
\* was made on
LabelMakeChrName ==
    /\ pc = "label"
    /\ hist.calls < MaxLabelCalls
    /\ \E order \in LabelTagOrders :
        LET r == make_chr_name(chr_namer, order, SeqName)
        IN  /\ chr_namer' = r.nm
            /\ pc' = IF r.raised THEN "failed" ELSE "label"
            /\ hist' = [calls |-> hist.calls + 1,
                        last |-> <<[op |-> "make_chr_name", ftags |-> {},
                                    raised |-> r.raised, id |-> 0,
                                    before |-> chr_namer,
                                    order |-> order]>>]
    /\ UNCHANGED <<prtxt_asm, input_asm, bp_tenths, scf_i, heap, scaffolds,
                   found_fragments, multi, cuts, out_asms>>

\* One call of label_scaffold on a new OverlapResult for an edit fragment
\* with the tags ftags
LabelScaffold ==
    /\ pc = "label"
    /\ hist.calls < MaxLabelCalls
    /\ \E ftags \in LabelFragmentTags :
        LET id == Len(heap) + 1
            lab == label_scaffold(chr_namer, find_overlaps(input_asm, LabelBait),
                                  id, ftags)
        IN  /\ chr_namer' = lab.nm
            /\ heap' = Append(heap, lab.o)
            /\ hist' = [calls |-> hist.calls + 1,
                        last |-> <<[op |-> "label_scaffold", ftags |-> ftags,
                                    raised |-> FALSE, id |-> id,
                                    before |-> chr_namer,
                                    order |-> <<>>]>>]
    /\ UNCHANGED <<pc, prtxt_asm, input_asm, bp_tenths, scf_i, scaffolds,
                   found_fragments, multi, cuts, out_asms>>

NextLabel ==
    \/ LabelMakeChrName
    \/ LabelScaffold

SpecLabel == InitLabel /\ [][NextLabel]_vars

\* The pipeline with the resolver rounds iterated in any order
NextAnyOrder ==
    \/ FindAssemblyOverlaps
    \/ DiscardAnyOrder
    \/ CutRemainingOverhangs
    \/ RenameHaplotigsBySize
    \/ AddMissingScaffoldsFromInput
    \/ AssembliesWithScaffoldsFused

\* bp_per_texel 0.5: error_length is 1
FineBpTenths == 5

\* A fragment that reaches w - 1 bases before its second edit fragment, which
\* begins on its last base and ends on a one-base fragment d bases further
WideInput(w, d) ==
    <<[name |-> InputScaffoldName,
       rows |-> InputRows(<<Frag(SeqName, 1, w), Frag(SeqName, w + d, w + d)>>)]>>

WideEdit(w, d) ==
    EditScaffolds(<<Frag(SeqName, 1, w - 1), Frag(SeqName, w, w + d)>>,
                  FALSE, {}, {}, TRUE)

\* Untagged edits of one scaffold: any layouts of MaxCoord bases, layouts of
\* MaxLong bases without holes and with at most MaxBaits edit fragments, and
\* the wide fragments at bp_per_texel 0.5
InitAnyOrder ==
    /\ InitRun
    /\ \/ /\ bp_tenths \in BpTenthsSet
          /\ \E n \in {MaxCoord, MaxLong} :
              \E ic \in Layouts(n), bc \in Layouts(n) :
                  /\ LayoutIntervals(ic) # <<>>
                  /\ LayoutIntervals(bc) # <<>>
                  /\ n > MaxCoord => /\ FullLayout(ic)
                                     /\ FullLayout(bc)
                                     /\ Len(LayoutIntervals(bc)) <= MaxBaits
                  /\ input_asm = <<[name |-> InputScaffoldName,
                                    rows |-> InputRows(LayoutIntervals(ic))]>>
                  /\ prtxt_asm = EditScaffolds(LayoutIntervals(bc), FALSE, {}, {}, TRUE)
       \/ /\ bp_tenths = FineBpTenths
          /\ \E w \in 4..(MaxLong - 1), d \in 2..3 :
              /\ input_asm = WideInput(w, d)
              /\ prtxt_asm = WideEdit(w, d)

SpecAnyOrder == InitAnyOrder /\ [][NextAnyOrder]_vars

(***************************************************************************)
(* The pipeline on an input assembly of two scaffolds.  The first scaffold  *)
(* holds fragments of sequence seq with or without gap rows between them;   *)
(* the second holds two fragments of a sequence whose name begins with the  *)
(* haplotype Hap1.  Edit fragments may lie where the input has none, and    *)
(* may carry Unloc, Haplotig or Contaminant.  Gap rows are left out only    *)
(* under untagged edits, and the Hap1 sequence is edited only without       *)
(* Unloc, Haplotig and Contaminant.                                         *)
(***************************************************************************)
MaxCarry == 3

HapSeqName == Hap1 \o ContigSuffix

HapScaffoldName == <<"S","c","f","H">>

InputGap == Gap(1, <<"i","n">>)

\* Rows of an input scaffold: a gap row follows fragment k when g[k]
RECURSIVE InputRowsGapped(_, _, _)
InputRowsGapped(frs, g, k) ==
    IF k > Len(frs) THEN <<>>
    ELSE IF k = Len(frs) THEN <<frs[k]>>
    ELSE (IF g[k] THEN <<frs[k], InputGap>> ELSE <<frs[k]>>)
            \o InputRowsGapped(frs, g, k + 1)

HapScaffold ==
    [name |-> HapScaffoldName,
     rows |-> <<Frag(HapSeqName, 1, 1), InputGap, Frag(HapSeqName, 2, 2)>>]

\* An untagged edit scaffold of one fragment on the Hap1 sequence, or none
HapEdit(hb) ==
    IF hb = 0 THEN <<>>
    ELSE <<<<[name |-> HapSeqName, start |-> hb, end |-> hb, tags |-> {}]>>>>

InitCarry ==
    /\ InitRun
    /\ bp_tenths = Min(BpTenthsSet)
    /\ \E split \in BOOLEAN, every \in BOOLEAN,
          stags \in {{}, {Hap1}}, marker \in Markers \cup {{}} :
        /\ marker = {} => every
        /\ (marker # {} \/ stags = {}) => ~split
        /\ \E ic \in Layouts(MaxCarry), bc \in Layouts(MaxCarry),
              hb \in (IF marker # {} THEN {0} ELSE 0..2) :
            LET ifrs == LayoutIntervals(ic)
                bfrs == LayoutIntervals(bc)
            IN  /\ ifrs # <<>>
                /\ bfrs # <<>> \/ hb # 0
                /\ \E g \in [1..MaxCarry -> BOOLEAN] :
                    /\ \A k \in 1..MaxCarry : k >= Len(ifrs) => ~g[k]
                    /\ (marker # {} \/ stags # {}) =>
                            \A k \in 1..MaxCarry : k < Len(ifrs) => g[k]
                    /\ input_asm = <<[name |-> InputScaffoldName,
                                      rows |-> InputRowsGapped(ifrs, g, 1)],
                                    HapScaffold>>
                    /\ prtxt_asm = (IF bfrs = <<>> THEN <<>>
                                    ELSE EditScaffolds(bfrs, split, stags,
                                                       marker, every))
                                        \o HapEdit(hb)

SpecCarry == InitCarry /\ [][Next]_vars

(***************************************************************************)
(* Properties                                                              *)
(***************************************************************************)
\* Fragment rows of the output assemblies, as a sequence
RECURSIVE Flatten(_)
Flatten(ss) == IF ss = <<>> THEN <<>> ELSE Head(ss) \o Flatten(Tail(ss))

OutputScaffolds == Flatten([k \in DOMAIN out_asms |-> out_asms[k].scaffolds])

OutputFragments ==
    Fragments(Flatten([k \in DOMAIN OutputScaffolds |-> OutputScaffolds[k].rows]))

\* Number of fragments of frs that cover base x of sequence n
Coverage(frs, n, x) ==
    Cardinality({i \in DOMAIN frs :
        frs[i].name = n /\ frs[i].start <= x /\ x <= frs[i].end})

InputFragmentSeq == Fragments(Flatten([k \in DOMAIN input_asm |-> input_asm[k].rows]))

SomeMissingScaffold == \E i \in DOMAIN heap : ~heap[i].ovr

C1_WitnessFix ==
    /\ pc = "done"
    /\ hist.fixes # <<>>
    /\ SomeMissingScaffold

\* Bases of a fragment
Bases(f) == f.start..f.end

\* The sub-fragments partition the fragment they were cut from
CutIsSound(f, subs) ==
    LET k == Len(subs)
        pairs == {p \in (1..k) \X (1..k) : p[1] < p[2]}
    IN  /\ subs[1].start = f.start
        /\ subs[k].end = f.end
        /\ \A p \in pairs : Bases(subs[p[1]]) \cap Bases(subs[p[2]]) = {}
        /\ Cardinality({p \in pairs :
                \/ subs[p[1]].end + 1 = subs[p[2]].start
                \/ subs[p[2]].end + 1 = subs[p[1]].start}) = k - 1
        /\ UNION {Bases(subs[i]) : i \in 1..k} = Bases(f)

\* C2: cut soundness. Every fragment handed to cut_fragments is in k >= 2
\* OverlapResults; when cut_fragments returns, its k sub-fragments do not
\* overlap, abut in k-1 places and cover exactly the fragment, the first
\* keeping its start and the last its end; in every other case
\* qc_sub_fragments raises.
C2_CutSoundness ==
    \A i \in DOMAIN hist.cutlog :
        LET e == hist.cutlog[i]
        IN  /\ Len(e.subs) >= 2
            /\ e.raised <=> ~CutIsSound(e.fragment, e.subs)

C2_Witness ==
    /\ pc = "rename"
    /\ \E i \in DOMAIN hist.cutlog : Len(hist.cutlog[i].subs) = 3

C2_WitnessRaise ==
    /\ pc = "failed"
    /\ \E i \in DOMAIN hist.cutlog : hist.cutlog[i].raised

\* C3: termination of discard_overhanging_fragments. Every iteration that
\* applies a fix (and so is followed by another) strictly decreases the sum
\* of scaffold_count over fragments_found_more_than_once, which is a natural
\* number, and the number of iterations never exceeds the initial sum: the
\* loop ends after at most that many iterations.
C3_Termination ==
    [][/\ (pc = "discard" /\ pc' = "discard")
            => /\ SumScaffoldCount(found_fragments', multi')
                    < SumScaffoldCount(found_fragments, multi)
               /\ SumScaffoldCount(found_fragments', multi') >= 0
       /\ hist'.rounds <= hist'.sum0
       /\ pc = "discard" => hist'.rounds <= hist.rounds + 1]_vars

C3_Witness ==
    /\ pc = "cut"
    /\ hist.rounds >= 1
    /\ Len(hist.fixes) >= 2

\* discard_overhanging_fragments run to its end in insertion order
RECURSIVE InsertionOrderRounds(_, _, _, _)
InsertionOrderRounds(hp, fnd, mlt, err_length) ==
    IF mlt = <<>> THEN [heap |-> hp, found |-> fnd, multi |-> mlt]
    ELSE LET r == Round(hp, fnd, mlt, mlt, fnd, err_length)
         IN  IF r.fixes = <<>> THEN [heap |-> hp, found |-> fnd, multi |-> mlt]
             ELSE InsertionOrderRounds(r.heap, r.found, r.multi, err_length)

\* Which fragments remain in which OverlapResult, and what is left in
\* fragments_found_more_than_once
FinalOutcome(hp, fnd, mlt) ==
    [rows |-> [i \in DOMAIN hp |-> hp[i].rows],
     multi |-> {<<mlt[i], {fnd[mlt[i]][j] : j \in DOMAIN fnd[mlt[i]]}>> :
                    i \in DOMAIN mlt}]

SameAsInsertionOrder ==
    LET c == InsertionOrderRounds(hist.heap0, hist.found0, hist.multi0,
                                  error_length(bp_tenths))
    IN  FinalOutcome(heap, found_fragments, multi)
            = FinalOutcome(c.heap, c.found, c.multi)

\* C4 as stated: whatever the orders in which the rounds iterate
\* fragments_found_more_than_once and the scaffolds of its entries, the state
\* after discard_overhanging_fragments is the one insertion order gives.
C4_OrderInvariance == pc = "cut" => SameAsInsertionOrder

\* C4 amended: the state after discard_overhanging_fragments does not depend
\* on the iteration orders provided that in no round two premises share an
\* OverlapResult and no prem_list holds two premises that compare equal.
C4_OrderInvarianceUntied ==
    (pc = "cut" /\ ~hist.shared /\ ~hist.tied) => SameAsInsertionOrder

C4_Witness ==
    /\ pc = "cut"
    /\ ~hist.shared
    /\ ~hist.tied
    /\ hist.reordered
    /\ hist.fixes # <<>>

\* The rows of scaffold id hold fragment f
HasRow(id, f) == \E k \in DOMAIN heap[id].rows : heap[id].rows[k] = f

\* C5: single-cut resolution. When the prem_list of a fragment holds exactly
\* two premises and both bait overlaps are below error_length, the round
\* removes the fragment from exactly one of the two OverlapResults, the one
\* whose bait overlap is the smaller (not the larger) of the two, the
\* fragment stays in the other, and in the output of the completed run the
\* fragment is one row, whole, of exactly one scaffold.
C5_SingleCutResolution ==
    \A c \in hist.twoprem :
        \E rm \in {c.first, c.second}, kp \in {c.first, c.second} :
            /\ rm # kp
            /\ c.removed = {rm.scaffold}
            /\ rm.overlap <= kp.overlap
            /\ ~HasRow(rm.scaffold, c.fragment)
            /\ HasRow(kp.scaffold, c.fragment)
            /\ pc = "done" =>
                    /\ Cardinality({k \in DOMAIN OutputFragments :
                            Overlaps(OutputFragments[k], c.fragment)}) = 1
                    /\ Cardinality({k \in DOMAIN OutputScaffolds :
                            \E j \in DOMAIN OutputScaffolds[k].rows :
                                OutputScaffolds[k].rows[j] = c.fragment}) = 1

C5_Witness ==
    /\ pc = "done"
    /\ \E c \in hist.twoprem : c.first.overlap < c.second.overlap

\* The scaffolds ids hold the names nm(1) .. nm(n), one each, and the holder
\* of nm(i) is at least as long as the holder of nm(i + 1)
NamedBySize(ids, nm(_)) ==
    LET n == Len(ids)
        holders(i) == {k \in 1..n : heap[ids[k]].name = nm(i)}
    IN  /\ \A i \in 1..n : Cardinality(holders(i)) = 1
        /\ \A i \in 1..(n - 1) :
              \A a \in holders(i), b \in holders(i + 1) :
                  ScaffoldLength(heap[ids[a]]) >= ScaffoldLength(heap[ids[b]])

\* C6: haplotig naming. Once rename_haplotigs_by_size has run, the names of
\* haplotig_scaffolds are H_1 .. H_n, one each, and the scaffold named H_i is
\* at least as long as the scaffold named H_(i+1).
C6_HaplotigNaming ==
    pc \in {"missing", "fuse", "done"} =>
        NamedBySize(chr_namer.haplotig_scaffolds, haplotig_name)

\* The names were re-dealt: the first haplotig is no longer H_1
C6_Witness ==
    /\ pc = "missing"
    /\ Len(chr_namer.haplotig_scaffolds) >= 2
    /\ heap[chr_namer.haplotig_scaffolds[1]].name # haplotig_name(1)
    /\ cuts >= 1

\* C7 as stated: in the output, the scaffold named {chr}_unloc_i is at least
\* as long as the scaffold named {chr}_unloc_(i+1), lengths being those of
\* the output.
C7_UnlocOrderInOutput ==
    pc = "done" =>
        \A a, b \in DOMAIN OutputScaffolds :
            LET sa == OutputScaffolds[a]
                sb == OutputScaffolds[b]
            IN  \A k \in 1..Len(sa.name), i \in 1..Len(heap) :
                    (/\ sa.name = unloc_name(SubSeq(sa.name, 1, k), i)
                     /\ sb.name = unloc_name(SubSeq(sa.name, 1, k), i + 1))
                        => RowsLength(sa.rows) >= RowsLength(sb.rows)

\* find_assembly_overlaps has finished an edit scaffold and nothing has
\* changed the OverlapResults since
AfterRenameUnlocs == pc \in {"find", "discard"} /\ scf_i > 1 /\ hist.rounds = 0

UnlocNameOfCurrentChr(i) == unloc_name(chr_namer.current_chr_name, i)

\* C7 amended: when rename_unlocs_by_size has run for an edit scaffold, its
\* unlocalised scaffolds hold the names {chr}_unloc_1 .. {chr}_unloc_n, one
\* each, in order of descending length as measured at that moment, before
\* overhanging fragments are discarded or cut.
C7_UnlocOrderAtRename ==
    AfterRenameUnlocs => NamedBySize(chr_namer.unloc_scaffolds, UnlocNameOfCurrentChr)

C7_Witness ==
    /\ AfterRenameUnlocs
    /\ Len(chr_namer.unloc_scaffolds) >= 2
    /\ heap[chr_namer.unloc_scaffolds[1]].name # UnlocNameOfCurrentChr(1)

\* An edit scaffold that carries Painted and no chromosome-name tag
PaintedNoChr(scf) ==
    /\ Painted \in fragment_tags(scf)
    /\ ~\E tag \in fragment_tags(scf) \ {Painted} : ChrNameRe(tag)

\* Number of such scaffolds among the first n edit scaffolds
PaintedCount(n) ==
    Cardinality({i \in 1..n : PaintedNoChr(prtxt_asm[i])})

\* The names {prefix}1 .. {prefix}n
NumberedNames(n) == {autosome_prefix \o Str(i) : i \in 1..n}

\* The names of output scaffolds of the form {prefix}{digits}
OutputAutosomeNames ==
    {OutputScaffolds[k].name : k \in
        {x \in DOMAIN OutputScaffolds :
            LET nm == OutputScaffolds[x].name
            IN  /\ Len(nm) > Len(autosome_prefix)
                /\ SubSeq(nm, 1, Len(autosome_prefix)) = autosome_prefix
                /\ ParseNat(SubSeq(nm, Len(autosome_prefix) + 1, Len(nm))) >= 0}}

\* C8 as stated: the autosome names of the output scaffolds are exactly
\* {prefix}1 .. {prefix}N, N the number of edit scaffolds that are Painted
\* and carry no chromosome-name tag.
C8_OutputAutosomesExact ==
    pc = "done" => OutputAutosomeNames = NumberedNames(PaintedCount(Len(prtxt_asm)))

\* C8 amended: make_chr_name numbers the Painted edit scaffolds without
\* chromosome-name tag 1, 2, .. in order, skipping no number, so that the
\* counter equals the number of such scaffolds processed; the autosome names
\* of the output scaffolds are among {prefix}1 .. {prefix}N, and a number is
\* absent from the output when its edit scaffold gave no scaffold of that name.
C8_AutosomeNumbering ==
    /\ chr_namer.chr_name_n = PaintedCount(scf_i - 1)
    /\ (pc = "find" /\ scf_i > 1 /\ PaintedNoChr(prtxt_asm[scf_i - 1]))
            => chr_namer.current_chr_name = autosome_prefix \o Str(PaintedCount(scf_i - 1))
    /\ pc = "done" =>
            OutputAutosomeNames \subseteq NumberedNames(PaintedCount(Len(prtxt_asm)))

C8_Witness ==
    /\ pc = "done"
    /\ chr_namer.chr_name_n >= 2
    /\ autosome_prefix \o Str(2) \in OutputAutosomeNames

\* A tag that make_chr_name takes for a chromosome name: a capital letter
\* followed by digits only
LooksLikeChrName(tag) ==
    /\ tag # <<>>
    /\ Head(tag) \in Upper
    /\ \A i \in DOMAIN tag : i > 1 => tag[i] \in Digit

\* A haplotype-candidate tag
HaplotypeCandidate(tag) ==
    /\ tag # Painted
    /\ ~LooksLikeChrName(tag)
    /\ tag \notin {Contaminant, Cut, Haplotig, Unloc}

\* The last call was for an unpainted scaffold without chromosome-name tag
\* and did not raise
LastCallUnpaintedUnnamed ==
    /\ hist.last # <<>>
    /\ ~hist.last[1].raised
    /\ Painted \notin hist.last[1].tags
    /\ ~\E tag \in hist.last[1].tags : LooksLikeChrName(tag)

\* p is the part of name before its first underscore
IsPrefixBeforeUnderscore(p, name) ==
    /\ p # <<>>
    /\ Len(name) > Len(p)
    /\ SubSeq(name, 1, Len(p)) = p
    /\ name[Len(p) + 1] = "_"
    /\ \A i \in DOMAIN p : p[i] # "_"

\* C9 as stated: an unpainted scaffold without chromosome-name tag whose
\* first row is named A_contig_7 is given haplotype A once an earlier
\* scaffold has carried the tag A.
C9_PrefixInferenceA ==
    (/\ LastCallUnpaintedUnnamed
     /\ hist.last[1].first_name = TagA \o ContigSuffix
     /\ TagA \in hist.last[1].seen)
        => chr_namer.current_haplotype = TagA

\* C9 amended: an unpainted scaffold without chromosome-name tag is given
\* the part of its first row's name before the first underscore as
\* haplotype exactly when an earlier call of make_chr_name assigned that
\* haplotype (it is in haplotype_set); otherwise it keeps the haplotype of
\* its own haplotype-candidate tag, if any.  The tag A looks like a
\* chromosome name and is never a haplotype: Hap1_contig_7 after the tag
\* Hap1 is given haplotype Hap1, A_contig_7 after the tag A is not given A.
C9_PrefixInference ==
    /\ chr_namer.haplotype_set = hist.assigned
    /\ TagA \notin chr_namer.haplotype_set
    /\ LastCallUnpaintedUnnamed =>
          LET c == hist.last[1]
              adopted == {p \in c.assigned : IsPrefixBeforeUnderscore(p, c.first_name)}
              own == {tag \in c.tags : HaplotypeCandidate(tag)}
          IN  IF adopted # {} THEN chr_namer.current_haplotype \in adopted
              ELSE IF own # {} THEN chr_namer.current_haplotype \in own
              ELSE chr_namer.current_haplotype = None

\* Hap1_contig_7 is given the haplotype Hap1 of an earlier scaffold although
\* it carries the tag Hap2 itself
C9_Witness ==
    /\ LastCallUnpaintedUnnamed
    /\ hist.last[1].first_name = Hap1 \o ContigSuffix
    /\ Hap1 \in hist.last[1].seen
    /\ Hap2 \in hist.last[1].tags
    /\ chr_namer.current_haplotype = Hap1

\* C10: make_chr_name raises exactly when the tags of the scaffold hold two
\* distinct tags that look like chromosome names or two distinct
\* haplotype-candidate tags, in whatever order the tags are iterated.
C10_RaiseIffTwoOfAKind ==
    hist.last # <<>> =>
        LET tags == hist.last[1].tags
        IN  hist.last[1].raised <=>
              \/ Cardinality({tag \in tags : LooksLikeChrName(tag)}) >= 2
              \/ Cardinality({tag \in tags : HaplotypeCandidate(tag)}) >= 2

C10_Witness ==
    /\ pc = "failed"
    /\ hist.last # <<>>
    /\ hist.last[1].raised
    /\ hist.last[1].tags = {Hap1, Hap2}

C10_WitnessSucceeds ==
    /\ pc = "namer"
    /\ hist.last # <<>>
    /\ ~hist.last[1].raised
    /\ hist.last[1].tags = {TagA, Hap1}

\* The edit fragments of the edit scaffolds find_assembly_overlaps has passed
EditFragmentsPassed == Flatten([k \in 1..(scf_i - 1) |-> prtxt_asm[k]])

\* Some fragment of the input assembly overlaps the edit fragment
OverlapsInput(bait) ==
    \E k \in DOMAIN InputFragmentSeq : Overlaps(InputFragmentSeq[k], bait)

\* C11: a missing overlap is not fatal. find_assembly_overlaps passes every
\* edit fragment of every edit scaffold in order, whether or not the ones
\* before it overlapped the input; the pass of an edit fragment that overlaps
\* no input fragment appends no scaffold, creates no OverlapResult, leaves
\* found_fragments and fragments_found_more_than_once as they were and uses
\* up no haplotig or unloc number.
C11_MissingOverlapSkipped ==
    /\ Len(hist.fraglog) = Len(EditFragmentsPassed)
    /\ \A i \in DOMAIN hist.fraglog :
          LET e == hist.fraglog[i]
          IN  /\ e.bait = EditFragmentsPassed[i]
              /\ e.hit <=> OverlapsInput(e.bait)
              /\ ~e.hit => e.after = e.before

\* An Unloc edit fragment without overlap is followed, in its edit scaffold,
\* by an Unloc edit fragment with one, which is given the first unloc name
C11_Witness ==
    /\ pc = "discard"
    /\ \E i \in DOMAIN hist.fraglog :
          /\ i > 1
          /\ ~hist.fraglog[i - 1].hit
          /\ Unloc \in hist.fraglog[i - 1].bait.tags
          /\ hist.fraglog[i].hit
          /\ Unloc \in hist.fraglog[i].bait.tags
    /\ \E id \in DOMAIN heap :
          heap[id].name = unloc_name(SeqName, 1)
    /\ ~\E id \in DOMAIN heap :
          heap[id].name = unloc_name(SeqName, 2)

\* add_missing_scaffolds_from_input has run
AfterAddMissing == pc \in {"fuse", "done"}

\* No fragment of input scaffold k is in found_fragments
Untouched(k) ==
    \A j \in DOMAIN input_asm[k].rows :
        input_asm[k].rows[j].gap \/ input_asm[k].rows[j] \notin DOMAIN found_fragments

\* The heap ids of the scaffolds add_missing_scaffolds_from_input appended
\* for input scaffold k
CarriedOver(k) ==
    {scaffolds[x] : x \in {y \in DOMAIN scaffolds :
        /\ ~heap[scaffolds[y]].ovr
        /\ heap[scaffolds[y]].name = input_asm[k].name}}

\* C12: missing-scaffold carry-over. For an input scaffold none of whose
\* fragments is in found_fragments, add_missing_scaffolds_from_input appends
\* exactly one scaffold, and its rows are the rows of the input scaffold,
\* fragments and gap rows in order: every gap row is kept and no default_gap
\* is added.
C12_CarryOver ==
    AfterAddMissing =>
        \A k \in DOMAIN input_asm :
            Untouched(k) =>
                /\ Cardinality(CarriedOver(k)) = 1
                /\ Cardinality({x \in DOMAIN scaffolds :
                        scaffolds[x] \in CarriedOver(k)}) = 1
                /\ \A id \in CarriedOver(k) :
                        /\ heap[id].rows = input_asm[k].rows
                        /\ \A j \in DOMAIN heap[id].rows :
                                heap[id].rows[j] # default_gap

\* An input scaffold with a gap row and with two fragments that follow each
\* other without one is carried over, while fragments of the other input
\* scaffold were found
C12_Witness ==
    /\ pc = "done"
    /\ found_fragments # <<>>
    /\ \E k \in DOMAIN input_asm :
          LET rows == input_asm[k].rows
          IN  /\ Untouched(k)
              /\ \E j \in DOMAIN rows : rows[j].gap
              /\ \E j \in DOMAIN rows :
                    j > 1 /\ ~rows[j].gap /\ ~rows[j - 1].gap
              /\ \E id \in CarriedOver(k) : heap[id].rows = rows

\* The Scaffold invariant: rows begin and end with a fragment and hold no
\* two gaps in a row
WellFormed(rows) ==
    /\ rows # <<>>
    /\ ~rows[1].gap
    /\ ~rows[Len(rows)].gap
    /\ \A j \in 1..(Len(rows) - 1) : ~(rows[j].gap /\ rows[j + 1].gap)

\* C13: scaffold well-formedness. Every scaffold that
\* scaffolds_fused_by_name emits and every scaffold that
\* add_missing_scaffolds_from_input builds is non-empty, begins and ends with
\* a fragment and has no two consecutive gap rows, whatever discards and cuts
\* came before.
C13_WellFormed ==
    /\ pc = "done" =>
          \A k \in DOMAIN OutputScaffolds : WellFormed(OutputScaffolds[k].rows)
    /\ \A id \in DOMAIN heap : ~heap[id].ovr => WellFormed(heap[id].rows)

\* The resolver emptied an OverlapResult that lies between two others of
\* its name, which are fused with one default_gap; a scaffold was built from
\* the input
C13_Witness ==
    /\ pc = "done"
    /\ hist.fixes # <<>>
    /\ \E x \in DOMAIN scaffolds :
          /\ heap[scaffolds[x]].ovr
          /\ heap[scaffolds[x]].rows = <<>>
    /\ \E k \in DOMAIN OutputScaffolds :
          \E j \in DOMAIN OutputScaffolds[k].rows :
              OutputScaffolds[k].rows[j] = default_gap
    /\ SomeMissingScaffold

\* Fragments were cut and the pieces fused
C13_WitnessCut ==
    /\ pc = "done"
    /\ cuts >= 1
    /\ \E k \in DOMAIN OutputScaffolds :
          \E j \in DOMAIN OutputScaffolds[k].rows :
              OutputScaffolds[k].rows[j] = default_gap

\* Number of places of a sequence that hold x
Occurrences(seq, x) == Cardinality({i \in DOMAIN seq : seq[i] = x})

\* The key and the name of the output assembly a fused scaffold belongs to
PartitionKey(sc) ==
    IF sc.tag # None THEN sc.tag
    ELSE IF sc.haplotype # None THEN sc.haplotype
    ELSE None

PartitionName(sc) ==
    IF sc.tag # None THEN AsmName \o <<"_">> \o sc.tag \o <<"s">>
    ELSE IF sc.haplotype # None THEN AsmName \o <<"_">> \o sc.haplotype
    ELSE AsmName

\* C14: output partition. Every scaffold that scaffolds_fused_by_name emits
\* is in exactly one output assembly; the assembly is the one of its tag if
\* it has a tag, else the one of its haplotype if it has one, else the
\* untagged assembly, and is named {base}_{tag}s, {base}_{haplotype} or
\* {base}; no two output assemblies have the same key.
C14_OutputPartition ==
    pc = "done" =>
        LET fused == scaffolds_fused_by_name(heap, scaffolds)
        IN  /\ \A i \in DOMAIN fused :
                  Occurrences(OutputScaffolds, fused[i]) = Occurrences(fused, fused[i])
            /\ Len(OutputScaffolds) = Len(fused)
            /\ \A k \in DOMAIN out_asms :
                  /\ out_asms[k].scaffolds # <<>>
                  /\ \A j \in DOMAIN out_asms[k].scaffolds :
                        LET sc == out_asms[k].scaffolds[j]
                        IN  /\ out_asms[k].key = PartitionKey(sc)
                            /\ out_asms[k].name = PartitionName(sc)
            /\ \A k, l \in DOMAIN out_asms :
                  out_asms[k].key = out_asms[l].key => k = l

\* The output has the assembly of the tag Haplotig, holding a scaffold of
\* haplotype Hap1, the assembly of the haplotype Hap1 with two scaffolds,
\* and the untagged assembly
C14_Witness ==
    /\ pc = "done"
    /\ \E k \in DOMAIN out_asms :
          /\ out_asms[k].key = Haplotig
          /\ out_asms[k].name = AsmName \o <<"_">> \o Haplotig \o <<"s">>
          /\ \E j \in DOMAIN out_asms[k].scaffolds :
                out_asms[k].scaffolds[j].haplotype = Hap1
    /\ \E k \in DOMAIN out_asms :
          /\ out_asms[k].key = Hap1
          /\ out_asms[k].name = AsmName \o <<"_">> \o Hap1
          /\ Len(out_asms[k].scaffolds) >= 2
    /\ \E k \in DOMAIN out_asms :
          /\ out_asms[k].key = None
          /\ out_asms[k].name = AsmName

\* A round of discard_overhanging_fragments is about to begin, or the loop
\* has been left
AtRoundBoundary == pc \in {"discard", "cut"}

\* C15: the resolver never removes sequence. When a round of
\* discard_overhanging_fragments begins and when the loop is left, every
\* entry of fragments_found_more_than_once is in at least two scaffolds; a
\* round applies at most one premise per fragment; and every fragment
\* recorded in found_fragments is still a row of at least one OverlapResult
\* of the working list.
C15_NoSequenceRemoved ==
    AtRoundBoundary =>
        /\ \A i \in DOMAIN multi : Len(found_fragments[multi[i]]) >= 2
        /\ \A i, j \in DOMAIN hist.fixes :
              hist.fixes[i].fragment = hist.fixes[j].fragment => i = j
        /\ \A d \in DOMAIN hist.decisions : Len(hist.decisions[d].applied) <= 1
        /\ \A f \in DOMAIN found_fragments :
              \E x \in DOMAIN scaffolds : HasRow(scaffolds[x], f)

\* The loop is left after a round that applied a premise and one that
\* applied none, with a fragment still in two scaffolds and an
\* OverlapResult without rows
C15_Witness ==
    /\ pc = "cut"
    /\ hist.rounds >= 2
    /\ hist.fixes # <<>>
    /\ multi # <<>>
    /\ \E x \in DOMAIN scaffolds : heap[scaffolds[x]].rows = <<>>

\* A fragment found in three OverlapResults is left in one by two rounds
C15_WitnessThree ==
    /\ pc = "cut"
    /\ hist.rounds >= 2
    /\ multi = <<>>
    /\ \E f \in DOMAIN hist.found0 : Len(hist.found0[f]) >= 3

\* The two-premise small-overlap rule takes the prem_list of decision d
SmallOverlapRule(d) ==
    /\ Len(d.prems) = 2
    /\ d.prems[1].overlap < error_length(bp_tenths)
    /\ d.prems[2].overlap < error_length(bp_tenths)

\* The general rule is the one that decides on the prem_list of decision d
GeneralRule(d) == Len(d.prems) > 1 /\ ~SmallOverlapRule(d)

\* A premise improves: its OverlapResult has more than one row, the
\* absolute overhang gets smaller, and the overhang left is above
\* -3 * err_length
FactImproves(q) ==
    /\ q.rows > 1
    /\ q.delta < 0
    /\ q.if_applied > -3 * error_length(bp_tenths)

\* The places in d.prems of the premise that was applied
AppliedAt(d) ==
    {k \in DOMAIN d.prems :
        /\ d.applied # <<>>
        /\ d.prems[k].scaffold = d.applied[1].scaffold
        /\ d.prems[k].kind = d.applied[1].kind
        /\ d.prems[k].fragment = d.applied[1].fragment}

\* C16: the general resolver rule. For a prem_list of more than one premise
\* that the two-premise small-overlap rule does not take, a premise is
\* applied only if its overhang_error_delta_if_applied is the smallest of
\* the list, it improves, and a premise whose delta is the smallest among
\* the others makes things worse; otherwise none of the list is applied.
C16_GeneralRule ==
    \A i \in DOMAIN hist.decisions :
        LET d == hist.decisions[i]
        IN  (GeneralRule(d) /\ d.applied # <<>>) =>
                /\ Cardinality(AppliedAt(d)) = 1
                /\ \A k \in AppliedAt(d) :
                      LET others == (DOMAIN d.prems) \ {k}
                      IN  /\ \A j \in others : d.prems[k].delta <= d.prems[j].delta
                          /\ FactImproves(d.prems[k])
                          /\ \E n \in others :
                                /\ \A j \in others :
                                      d.prems[n].delta <= d.prems[j].delta
                                /\ ~FactImproves(d.prems[n])

\* The general rule applied a premise of a list of three
C16_Witness ==
    /\ pc \in {"discard", "cut"}
    /\ \E i \in DOMAIN hist.decisions :
          LET d == hist.decisions[i]
          IN  /\ GeneralRule(d)
              /\ Len(d.prems) = 3
              /\ d.applied # <<>>

\* The general rule applied none although the best premise improves,
\* because the next one improves as well
C16_WitnessNone ==
    /\ pc = "cut"
    /\ \E i \in DOMAIN hist.decisions :
          LET d == hist.decisions[i]
          IN  /\ GeneralRule(d)
              /\ d.applied = <<>>
              /\ \E k, n \in DOMAIN d.prems :
                    /\ k # n
                    /\ FactImproves(d.prems[k])
                    /\ FactImproves(d.prems[n])
                    /\ \A j \in DOMAIN d.prems :
                          /\ d.prems[k].delta <= d.prems[j].delta
                          /\ j # k => d.prems[n].delta <= d.prems[j].delta

\* The premise applied in decision d, as make_fixes read it
AppliedFacts(d) == d.prems[CHOOSE k \in DOMAIN d.prems : k \in AppliedAt(d)]

\* The guard on an applied premise: its OverlapResult had more than one row,
\* the absolute overhang at its end got smaller, and the overhang left is
\* above -3 * err_length
Guarded(d) ==
    /\ AppliedFacts(d).rows > 1
    /\ d.left[1].rows >= 1
    /\ Abs(d.left[1].overhang) < Abs(AppliedFacts(d).overhang)
    /\ d.left[1].overhang > -3 * error_length(bp_tenths)

\* C17 as stated: every premise make_fixes applies is guarded, so the
\* resolver leaves no OverlapResult of the working list without rows.
C17_GuardOnEveryFix ==
    AtRoundBoundary =>
        /\ \A i \in DOMAIN hist.decisions :
              hist.decisions[i].applied # <<>> => Guarded(hist.decisions[i])
        /\ \A x \in DOMAIN scaffolds : heap[scaffolds[x]].rows # <<>>

\* C17 amended: every premise applied by the general rule of make_fixes is
\* guarded, so the general rule leaves no OverlapResult without rows; a
\* premise applied by the two-premise small-overlap rule is applied without
\* the guard, and only such a premise removes the only row of an
\* OverlapResult.
C17_GuardOnGeneralRule ==
    AtRoundBoundary =>
        \A i \in DOMAIN hist.decisions :
            LET d == hist.decisions[i]
            IN  d.applied # <<>> =>
                    /\ GeneralRule(d) \/ SmallOverlapRule(d)
                    /\ GeneralRule(d) => Guarded(d)
                    /\ d.left[1].rows = 0 => SmallOverlapRule(d)

\* The general rule applied a premise that left a negative overhang
C17_Witness ==
    /\ AtRoundBoundary
    /\ \E i \in DOMAIN hist.decisions :
          LET d == hist.decisions[i]
          IN  /\ GeneralRule(d)
              /\ d.applied # <<>>
              /\ d.left[1].overhang < 0

\* The general rule applied none because the premise that lessens the
\* overhang would leave -3 * err_length
C17_WitnessFloor ==
    /\ pc = "cut"
    /\ \E i \in DOMAIN hist.decisions :
          LET d == hist.decisions[i]
          IN  /\ GeneralRule(d)
              /\ d.applied = <<>>
              /\ \E k \in DOMAIN d.prems :
                    /\ d.prems[k].rows > 1
                    /\ d.prems[k].delta < 0
                    /\ d.prems[k].if_applied = -3 * error_length(bp_tenths)

\* Indices from i on of the fragment rows not in found_fragments
RECURSIVE KeptIndices(_, _)
KeptIndices(rows, i) ==
    IF i > Len(rows) THEN <<>>
    ELSE (IF ~rows[i].gap /\ rows[i] \notin DOMAIN found_fragments
          THEN <<i>> ELSE <<>>) \o KeptIndices(rows, i + 1)

\* Indices from i on of the fragment rows
RECURSIVE FragmentIndices(_, _)
FragmentIndices(rows, i) ==
    IF i > Len(rows) THEN <<>>
    ELSE (IF ~rows[i].gap THEN <<i>> ELSE <<>>) \o FragmentIndices(rows, i + 1)

\* A fragment in found_fragments lies between rows p and i
FoundBetween(rows, p, i) ==
    \E j \in (p + 1)..(i - 1) : ~rows[j].gap /\ rows[j] \in DOMAIN found_fragments

\* Rows p and i are separated by one gap row only
AdjacentOverGap(rows, p, i) == i = p + 2 /\ rows[p + 1].gap

\* The rows of a carried-over scaffold are the kept fragments of input
\* scaffold k in order, with Sep(rows, p, i) between the fragments kept from
\* rows p and i
CarriedWith(Sep(_, _, _), k) ==
    LET rows == input_asm[k].rows
        ks == KeptIndices(rows, 1)
    IN  ks # <<>> =>
            /\ CarriedOver(k) # {}
            /\ \A id \in CarriedOver(k) :
                  LET out == heap[id].rows
                      fp == FragmentIndices(out, 1)
                  IN  /\ Len(fp) = Len(ks)
                      /\ \A x \in 1..Len(ks) : out[fp[x]] = rows[ks[x]]
                      /\ \A x \in 1..(Len(ks) - 1) :
                            SubSeq(out, fp[x] + 1, fp[x + 1] - 1)
                                = Sep(rows, ks[x], ks[x + 1])

\* The separator as stated: the gap row between adjacent fragments,
\* default_gap when a found fragment lies between
ClaimedSeparator(rows, p, i) ==
    IF AdjacentOverGap(rows, p, i) THEN <<rows[p + 1]>>
    ELSE IF FoundBetween(rows, p, i) THEN <<default_gap>>
    ELSE <<>>

\* The separator by the row before the later fragment
PrevRowSeparator(rows, p, i) ==
    IF i = p + 1 THEN <<>>
    ELSE IF rows[i - 1].gap THEN <<rows[i - 1]>>
    ELSE <<default_gap>>

\* C18 as stated: between two consecutively kept fragments the original gap
\* row is inserted when only that gap row separates them in the input
\* scaffold, and default_gap whenever a found fragment lay between them.
C18_DefaultGapWhenFoundBetween ==
    AfterAddMissing =>
        \A k \in DOMAIN input_asm : CarriedWith(ClaimedSeparator, k)

\* C18 (amended): between two consecutively kept fragments nothing is
\* inserted when they are consecutive rows of the input scaffold; otherwise
\* the row just before the later fragment is inserted when it is a gap row,
\* also when found fragments lay between the two, and default_gap is
\* inserted only when that row is a (found) fragment.
C18_PrevRowGapRule ==
    AfterAddMissing =>
        \A k \in DOMAIN input_asm : CarriedWith(PrevRowSeparator, k)

\* Kept fragments with a found fragment between them are joined by the
\* input's own gap row in one input, and by default_gap in another
C18_Witness ==
    /\ pc = "done"
    /\ \E k \in DOMAIN input_asm :
          LET rows == input_asm[k].rows
              ks == KeptIndices(rows, 1)
          IN  \E x \in 1..(Len(ks) - 1) :
                /\ FoundBetween(rows, ks[x], ks[x + 1])
                /\ rows[ks[x + 1] - 1].gap
                /\ rows[ks[x + 1] - 1] # default_gap
                /\ \E id \in CarriedOver(k) :
                      \E j \in DOMAIN heap[id].rows :
                          heap[id].rows[j] = rows[ks[x + 1] - 1]

C18_WitnessDefault ==
    /\ pc = "done"
    /\ \E k \in DOMAIN input_asm :
          LET rows == input_asm[k].rows
              ks == KeptIndices(rows, 1)
          IN  \E x \in 1..(Len(ks) - 1) :
                /\ FoundBetween(rows, ks[x], ks[x + 1])
                /\ ~rows[ks[x + 1] - 1].gap
                /\ \E id \in CarriedOver(k) :
                      \E j \in DOMAIN heap[id].rows :
                          heap[id].rows[j] = default_gap

\* C19 as stated: each scaffold appended by add_missing_scaffolds_from_input
\* has as its name current_chr_name as make_chr_name left it for that
\* scaffold, and as its haplotype the current_haplotype of the same call.
C19_NamedByChrName ==
    AfterAddMissing =>
        \A x \in DOMAIN hist.carried :
            LET e == hist.carried[x]
            IN  /\ heap[e.id].name = e.chr_name
                /\ heap[e.id].haplotype = e.haplotype

\* C19 (amended): each scaffold appended by
\* add_missing_scaffolds_from_input keeps the name of its input scaffold;
\* make_chr_name is called on it and leaves current_chr_name at the name of
\* its first row, which is not given to the scaffold; its haplotype is the
\* current_haplotype of that call, and it has no tag.
C19_KeepsInputName ==
    AfterAddMissing =>
        /\ \A x \in DOMAIN hist.carried :
              LET e == hist.carried[x]
              IN  /\ heap[e.id].name = input_asm[e.input].name
                  /\ e.chr_name = heap[e.id].rows[1].name
                  /\ heap[e.id].haplotype = e.haplotype
                  /\ heap[e.id].tag = None
                  /\ ~heap[e.id].ovr
        /\ \A y \in DOMAIN scaffolds :
              ~heap[scaffolds[y]].ovr =>
                  \E x \in DOMAIN hist.carried : hist.carried[x].id = scaffolds[y]

\* A carried-over scaffold whose first row begins with a haplotype seen in
\* the edit assembly has that haplotype, and a name that is neither
\* current_chr_name nor the name of a row
C19_Witness ==
    /\ pc = "done"
    /\ \E x \in DOMAIN hist.carried :
          LET e == hist.carried[x]
          IN  /\ e.haplotype = Hap1
              /\ heap[e.id].haplotype = Hap1
              /\ heap[e.id].name = HapScaffoldName
              /\ e.chr_name = HapSeqName
    /\ \E x \in DOMAIN hist.carried :
          LET e == hist.carried[x]
          IN  /\ e.haplotype = None
              /\ heap[e.id].name = InputScaffoldName
              /\ e.chr_name = SeqName

\* The last call of the ChrNamer driver was label_scaffold
LabelledLast == pc = "label" /\ hist.last # <<>> /\ hist.last[1].op = "label_scaffold"

HaplotigCountersKept(nm0) ==
    /\ chr_namer.haplotig_n = nm0.haplotig_n
    /\ chr_namer.haplotig_scaffolds = nm0.haplotig_scaffolds

UnlocCountersKept(nm0) ==
    /\ chr_namer.unloc_n = nm0.unloc_n
    /\ chr_namer.unloc_scaffolds = nm0.unloc_scaffolds

\* C20: label_scaffold precedence and counters. Contaminant on the edit
\* fragment wins over Haplotig, which wins over Unloc; only the Haplotig
\* branch increments haplotig_n and appends to haplotig_scaffolds, only the
\* Unloc branch increments unloc_n and appends to unloc_scaffolds; the
\* haplotype is always current_haplotype; and after any sequence of
\* make_chr_name and label_scaffold calls len(haplotig_scaffolds) =
\* haplotig_n and len(unloc_scaffolds) = unloc_n.
C20_LabelPrecedence ==
    /\ Len(chr_namer.haplotig_scaffolds) = chr_namer.haplotig_n
    /\ Len(chr_namer.unloc_scaffolds) = chr_namer.unloc_n
    /\ (pc \in {"label", "failed"} /\ hist.last # <<>>
            /\ hist.last[1].op = "make_chr_name") =>
          LET nm0 == hist.last[1].before
          IN  /\ HaplotigCountersKept(nm0)
              /\ IF hist.last[1].raised THEN UnlocCountersKept(nm0)
                  ELSE chr_namer.unloc_n = 0 /\ chr_namer.unloc_scaffolds = <<>>
    /\ LabelledLast =>
          LET e == hist.last[1]
              nm0 == e.before
              o == heap[e.id]
          IN  /\ o.haplotype = nm0.current_haplotype
              /\ chr_namer.current_haplotype = nm0.current_haplotype
              /\ chr_namer.current_chr_name = nm0.current_chr_name
              /\ IF Contaminant \in e.ftags THEN
                      /\ o.tag = Contaminant
                      /\ o.name = nm0.current_chr_name
                      /\ HaplotigCountersKept(nm0)
                      /\ UnlocCountersKept(nm0)
                  ELSE IF Haplotig \in e.ftags THEN
                      /\ o.tag = Haplotig
                      /\ o.name = haplotig_name(chr_namer.haplotig_n)
                      /\ chr_namer.haplotig_n = nm0.haplotig_n + 1
                      /\ chr_namer.haplotig_scaffolds
                            = Append(nm0.haplotig_scaffolds, e.id)
                      /\ UnlocCountersKept(nm0)
                  ELSE IF Unloc \in e.ftags THEN
                      /\ o.tag = None
                      /\ o.name = unloc_name(nm0.current_chr_name,
                                             chr_namer.unloc_n)
                      /\ chr_namer.unloc_n = nm0.unloc_n + 1
                      /\ chr_namer.unloc_scaffolds
                            = Append(nm0.unloc_scaffolds, e.id)
                      /\ HaplotigCountersKept(nm0)
                  ELSE
                      /\ o.tag = None
                      /\ o.name = nm0.current_chr_name
                      /\ HaplotigCountersKept(nm0)
                      /\ UnlocCountersKept(nm0)

\* A fragment with Contaminant, Haplotig and Unloc is labelled when both
\* counters are above zero and a haplotype is current
C20_Witness ==
    /\ LabelledLast
    /\ hist.last[1].ftags = {Contaminant, Haplotig, Unloc}
    /\ hist.last[1].before.haplotig_n >= 1
    /\ hist.last[1].before.unloc_n >= 1
    /\ hist.last[1].before.current_haplotype = Hap1
    /\ heap[hist.last[1].id].tag = Contaminant

\* A fragment with Haplotig and Unloc is labelled after an Unloc fragment
C20_WitnessHaplotig ==
    /\ LabelledLast
    /\ hist.last[1].ftags = {Haplotig, Unloc}
    /\ hist.last[1].before.unloc_n >= 1
    /\ heap[hist.last[1].id].tag = Haplotig
    /\ chr_namer.unloc_n = hist.last[1].before.unloc_n

\* The working-list entries that have rows, in order
LiveEntries == SelectSeq(scaffolds, LAMBDA id : heap[id].rows # <<>>)

HapChr(id) == <<heap[id].haplotype, heap[id].name>>

\* Entry p of live begins a run of equal (haplotype, name)
RunStartsAt(live, p) == p = 1 \/ HapChr(live[p]) # HapChr(live[p - 1])

\* The last entry of the run that begins at p
RunEnd(live, p) ==
    CHOOSE q \in p..Len(live) :
        /\ \A j \in (p + 1)..q : ~RunStartsAt(live, j)
        /\ q = Len(live) \/ RunStartsAt(live, q + 1)

RunStarts(live) ==
    SelectSeq([p \in 1..Len(live) |-> p], LAMBDA p : RunStartsAt(live, p))

\* The rows of entries p..q, with default_gap before every OverlapResult
\* but the first entry
RECURSIVE RunRows(_, _, _)
RunRows(live, p, q) ==
    IF p > q THEN <<>>
    ELSE heap[live[p]].rows
            \o (IF p < q /\ heap[live[p + 1]].ovr THEN <<default_gap>> ELSE <<>>)
            \o RunRows(live, p + 1, q)

\* C21: fusing by name. scaffolds_fused_by_name emits exactly one scaffold
\* per maximal run of consecutive non-empty working-list entries with
\* identical (haplotype, name); the fused scaffold has the rows of every
\* entry of the run in order with default_gap between consecutive
\* OverlapResult entries; entries without rows are skipped and do not end
\* a run.
C21_FusedRuns ==
    pc = "done" =>
        LET live == LiveEntries
            starts == RunStarts(live)
        IN  /\ Len(hist.fused) = Len(starts)
            /\ \A x \in DOMAIN starts :
                  LET p == starts[x]
                      f == hist.fused[x]
                  IN  /\ f.name = heap[live[p]].name
                      /\ f.haplotype = heap[live[p]].haplotype
                      /\ f.rows = RunRows(live, p, RunEnd(live, p))

\* An entry without rows lies between two entries of one run, and the
\* working list has more than one run
C21_Witness ==
    /\ pc = "done"
    /\ Len(hist.fused) >= 2
    /\ \E y \in 2..(Len(scaffolds) - 1) :
          /\ heap[scaffolds[y]].rows = <<>>
          /\ heap[scaffolds[y - 1]].rows # <<>>
          /\ heap[scaffolds[y + 1]].rows # <<>>
          /\ HapChr(scaffolds[y - 1]) = HapChr(scaffolds[y + 1])
          /\ \E x \in DOMAIN hist.fused :
                Len(Fragments(hist.fused[x].rows))
                    >= Len(Fragments(heap[scaffolds[y - 1]].rows))
                        + Len(Fragments(heap[scaffolds[y + 1]].rows))

\* A run of three OverlapResults is fused with two default_gap rows
C21_WitnessRun ==
    /\ pc = "done"
    /\ \E x \in DOMAIN hist.fused :
          Cardinality({j \in DOMAIN hist.fused[x].rows :
                          hist.fused[x].rows[j] = default_gap}) >= 2

\* The working-list entries that hold fragment f
Holders(f) ==
    {y \in DOMAIN scaffolds :
        \E j \in DOMAIN heap[scaffolds[y]].rows : heap[scaffolds[y]].rows[j] = f}

\* Sum over the first n fragments of fragments_found_more_than_once of the
\* number of OverlapResults holding the fragment, less one
RECURSIVE CutsDue(_)
CutsDue(n) ==
    IF n = 0 THEN 0
    ELSE Cardinality(Holders(multi[n])) - 1 + CutsDue(n - 1)

\* C22: cut accounting. When cut_remaining_overhangs completes without
\* error, fragments_found_more_than_once is empty and assembly_stats.cuts
\* has grown by the sum over the fragments cut of (number of OverlapResults
\* holding the fragment - 1); when qc_sub_fragments raises for a fragment,
\* the counter is not incremented for that fragment (it has grown by the
\* cuts of the fragments before it only).
C22_CutAccounting ==
    [][pc = "cut" =>
        IF pc' = "rename"
        THEN /\ multi' = <<>>
             /\ Len(hist'.cutlog) = Len(multi)
             /\ cuts' = cuts + CutsDue(Len(multi))
        ELSE /\ pc' = "failed"
             /\ hist'.cutlog[Len(hist'.cutlog)].raised
             /\ cuts' = cuts + CutsDue(Len(hist'.cutlog) - 1)]_vars

\* A fragment held by three OverlapResults was cut into three pieces
C22_Witness ==
    /\ pc = "rename"
    /\ multi = <<>>
    /\ \E i \in DOMAIN hist.cutlog : Len(hist.cutlog[i].subs) = 3
    /\ cuts = 2

\* Two fragments were cut
C22_WitnessTwo ==
    /\ pc = "rename"
    /\ Len(hist.cutlog) = 2
    /\ cuts = 2

\* qc_sub_fragments raised for the only fragment and nothing was counted
C22_WitnessRaise ==
    /\ pc = "failed"
    /\ multi # <<>>
    /\ hist.cutlog[Len(hist.cutlog)].raised
    /\ cuts = 0

\* C23: within each output assembly produced by
\* assemblies_with_scaffolds_fused no two distinct scaffolds have the same
\* name, for any edit assembly.
C23_UniqueNames ==
    pc = "done" =>
        \A k \in DOMAIN out_asms :
            \A i, j \in DOMAIN out_asms[k].scaffolds :
                i # j => out_asms[k].scaffolds[i].name # out_asms[k].scaffolds[j].name

\* An Unloc fragment sits between two untagged fragments of one edit
\* scaffold, and all three were found
C23_WitnessUnlocBetween ==
    /\ pc = "done"
    /\ \E s \in DOMAIN prtxt_asm :
          /\ Len(prtxt_asm[s]) = 3
          /\ Unloc \notin prtxt_asm[s][1].tags
          /\ Unloc \in prtxt_asm[s][2].tags
          /\ Unloc \notin prtxt_asm[s][3].tags
    /\ Len(hist.fused) >= 3
    /\ \E x \in 1..(Len(hist.fused) - 2) :
          /\ hist.fused[x].name = hist.fused[x + 2].name
          /\ hist.fused[x].haplotype = hist.fused[x + 2].haplotype
          /\ hist.fused[x + 1].name = unloc_name(hist.fused[x].name, 1)

\* The fragment rows of the output assembly of the Contaminant tag
ContaminantRows ==
    UNION {{out_asms[k].scaffolds[i].rows[j] :
                j \in {x \in DOMAIN out_asms[k].scaffolds[i].rows :
                            ~out_asms[k].scaffolds[i].rows[x].gap}} :
            k \in {x \in DOMAIN out_asms : out_asms[x].key = Contaminant},
            i \in DOMAIN hist.fused}

\* C24: tag isolation in the output. A fragment ends up in the Contaminant
\* output assembly if and only if the OverlapResult that holds it was tagged
\* Contaminant by label_scaffold: fusing by name moves no rows of an
\* untagged OverlapResult into a tagged scaffold and no rows of a
\* Contaminant-tagged OverlapResult into an untagged one.
C24_TagIsolation ==
    pc = "done" =>
        \A y \in DOMAIN scaffolds :
            LET o == heap[scaffolds[y]]
            IN  \A j \in DOMAIN o.rows :
                    ~o.rows[j].gap =>
                        (o.rows[j] \in ContaminantRows <=> o.tag = Contaminant)

\* A Contaminant fragment sits between two untagged fragments of one edit
\* scaffold, all three were found, and each fragment of the input is held
\* by one OverlapResult only
C24_WitnessContaminantBetween ==
    /\ pc = "done"
    /\ hist.cutlog = <<>>
    /\ \E s \in DOMAIN prtxt_asm :
          /\ Len(prtxt_asm[s]) = 3
          /\ Contaminant \notin prtxt_asm[s][1].tags
          /\ Contaminant \in prtxt_asm[s][2].tags
          /\ Contaminant \notin prtxt_asm[s][3].tags
    /\ \E y \in 2..(Len(scaffolds) - 1) :
          /\ heap[scaffolds[y]].tag = Contaminant
          /\ heap[scaffolds[y]].rows # <<>>
          /\ heap[scaffolds[y - 1]].tag = None
          /\ heap[scaffolds[y - 1]].rows # <<>>
          /\ heap[scaffolds[y + 1]].tag = None
          /\ heap[scaffolds[y + 1]].rows # <<>>
    /\ \A f \in DOMAIN found_fragments : Len(found_fragments[f]) = 1

\* C25: a failing make_chr_name leaves the ChrNamer unchanged. When the call
\* raises for inconsistent chromosome-name or haplotype tags, chr_name_n,
\* current_chr_name, current_haplotype, haplotype_set, unloc_n and
\* unloc_scaffolds keep the values they had before the call: no autosome
\* number is consumed.
C25_RaiseLeavesNamer ==
    (/\ hist.last # <<>>
     /\ hist.last[1].op = "make_chr_name"
     /\ hist.last[1].raised)
        => /\ pc = "failed"
           /\ chr_namer.chr_name_n = hist.last[1].before.chr_name_n
           /\ chr_namer.current_chr_name = hist.last[1].before.current_chr_name
           /\ chr_namer.current_haplotype = hist.last[1].before.current_haplotype
           /\ chr_namer.haplotype_set = hist.last[1].before.haplotype_set
           /\ chr_namer.unloc_n = hist.last[1].before.unloc_n
           /\ chr_namer.unloc_scaffolds = hist.last[1].before.unloc_scaffolds

\* make_chr_name raised on a ChrNamer that had named an autosome, recorded a
\* haplotype and named an unloc scaffold
C25_Witness ==
    /\ pc = "failed"
    /\ hist.last[1].op = "make_chr_name"
    /\ hist.last[1].raised
    /\ hist.last[1].order = <<Painted, Hap1, Hap2>>
    /\ chr_namer.chr_name_n >= 1
    /\ chr_namer.current_haplotype # None
    /\ chr_namer.haplotype_set # {}
    /\ chr_namer.unloc_n >= 1
    /\ chr_namer.unloc_scaffolds # <<>>

\* make_chr_name raised on the second of two chromosome names
C25_WitnessChrName ==
    /\ pc = "failed"
    /\ hist.last[1].raised
    /\ hist.last[1].order = <<TagA, TagX1>>
    /\ chr_namer.current_chr_name = TagA
    /\ chr_namer.haplotype_set = {}

====
